---- MODULE Spec2Model ----
(***************************************************************************)
(* Model of gdsfactory's Component (src/gdsfactory/component.py): the      *)
(* canvas, its references, ports and polygons, the global name counter     *)
(* and CACHE, the mutability lock, and the off-grid normalizer.            *)
(*                                                                         *)
(* Python objects are heap cells.  Component objects are numbered 1..n in  *)
(* creation order and ComponentReference objects 1..Len(refobj); every     *)
(* per-object attribute is a sequence indexed by the object number.  A     *)
(* Python dict or Counter is a function whose DOMAIN is its key set.       *)
(* Methods are operators from a heap record to a heap record; an           *)
(* exception is the string in the field exc ("" when none was raised) and  *)
(* a warnings.warn call sets the field warned.                             *)
(***************************************************************************)
EXTENDS Integers, Sequences, FiniteSets, TLC

\* ------------------------------------------------------------------ bounds
MaxCanvas == 2        \* Component objects a lifecycle behaviour creates
MaxCount == 4         \* names counted (by __init__ and rename) in a lifecycle behaviour
MaxItems == 2         \* polygons, ports and references built in a mutation behaviour
MaxMutCanvas == 2     \* Component objects a mutation behaviour builds
MaxPolyCanvas == 1    \* Component objects an add_polygon behaviour builds
MaxDerived == 1       \* Components it derives from them (remap_layers, flatten)
MaxRefObjects == 1    \* reference objects add_ref makes in a mutation behaviour
MaxObjects == 4       \* Component and reference objects a referencing behaviour makes
NormCanvases == 3     \* Component objects of a hierarchy given to the normalizer
NormRefs == 3         \* references of such a hierarchy
ExpCanvases == 3      \* Component objects of a hierarchy given to the export
ExpRefs == 2          \* references of such a hierarchy
HashCanvases == 2     \* Component objects whose geometry is hashed
HashPolys == 4        \* polygons added to them
PortCanvases == 3     \* Component objects of a hierarchy whose ports are projected
PortRefs == 2         \* references of such a hierarchy
CopyCanvases == 2     \* Component objects built in a copying behaviour
CopyItems == 2        \* polygons, ports and references given to them
FlatCanvases == 3     \* Component objects of a hierarchy that is flattened
FlatItems == 4        \* polygons, ports and references of such a hierarchy
ExtCanvases == 3      \* Component objects of a hierarchy that layers are extracted from
ExtItems == 3         \* polygons, ports and references of such a hierarchy
AliasCanvases == 2    \* Component objects built in an aliasing behaviour
AliasObjects == 6     \* Component and reference objects of such a behaviour
OwnCanvases == 3      \* Component objects built in an ownership behaviour
OwnObjects == 5       \* Component and reference objects of such a behaviour
MapCanvases == 2      \* Component objects whose ports map is built
MapPortObjects == 3   \* Port objects the callers of add_port hold or it copies

VARIABLES
  n,                        \* number of Component objects created so far
  name,                     \* Component._cell.name
  locked,                   \* Component._locked
  references,               \* Component._references: list of reference objects
  named_references,         \* Component._named_references: alias -> reference
  reference_names_counter,  \* Component._reference_names_counter
  polygons,                 \* Component._cell.polygons
  ports,                    \* Component.ports: name -> Port
  refobj,                   \* the ComponentReference objects
  portobj,                  \* the Port objects callers hold and add_port copies
  name_counters,            \* module global name_counters
  CACHE,                    \* gdsfactory.cell.CACHE: name -> Component
  raise_error_on_mutation,  \* CONF.raise_error_on_mutation
  last_saved_files,         \* CONF.last_saved_files: the paths written, in order
  files,                    \* the files on disk: path -> the library written there
  exc,                      \* exception raised by the last call, "" if none
  warned,                   \* whether the last call emitted a warning
  result,                   \* the last call: operation, arguments, returned value
  hist                      \* history of the calls made (for the naming claims)

vars == <<n, name, locked, references, named_references, reference_names_counter,
          polygons, ports, refobj, portobj, name_counters, CACHE,
          raise_error_on_mutation, last_saved_files, files, exc, warned, result, hist>>

\* ------------------------------------------------------------ dictionaries
EmptyDict == [k \in {} |-> 0]
Get(d, k, default) == IF k \in DOMAIN d THEN d[k] ELSE default
Put(d, k, v) == [x \in (DOMAIN d) \cup {k} |-> IF x = k THEN v ELSE d[x]]
Del(d, k) == [x \in (DOMAIN d) \ {k} |-> d[x]]

\* list.remove(x): drops the first occurrence of x
RECURSIVE ListRemove(_, _)
ListRemove(s, x) ==
  IF s = <<>> THEN <<>>
  ELSE IF Head(s) = x THEN Tail(s)
  ELSE <<Head(s)>> \o ListRemove(Tail(s), x)

SeqToSet(s) == {s[i] : i \in 1..Len(s)}

\* ------------------------------------------------------------------- heap
Heap ==
  [n |-> n, name |-> name, locked |-> locked, references |-> references,
   named_references |-> named_references,
   reference_names_counter |-> reference_names_counter,
   polygons |-> polygons, ports |-> ports, refobj |-> refobj, portobj |-> portobj,
   name_counters |-> name_counters, CACHE |-> CACHE,
   raise_error_on_mutation |-> raise_error_on_mutation,
   last_saved_files |-> last_saved_files, files |-> files,
   exc |-> "", warned |-> FALSE]

Commit(h) ==
  /\ n' = h.n
  /\ name' = h.name
  /\ locked' = h.locked
  /\ references' = h.references
  /\ named_references' = h.named_references
  /\ reference_names_counter' = h.reference_names_counter
  /\ polygons' = h.polygons
  /\ ports' = h.ports
  /\ refobj' = h.refobj
  /\ portobj' = h.portobj
  /\ name_counters' = h.name_counters
  /\ CACHE' = h.CACHE
  /\ raise_error_on_mutation' = h.raise_error_on_mutation
  /\ last_saved_files' = h.last_saved_files
  /\ files' = h.files
  /\ exc' = h.exc
  /\ warned' = h.warned

Raise(h, e) == [h EXCEPT !.exc = e]
Warn(h) == [h EXCEPT !.warned = TRUE]

\* ------------------------------------------------------- names and the cache
Suffixed(nm, k) == nm \o "$" \o ToString(k)

remove_from_cache(h, nm) == [h EXCEPT !.CACHE = Del(@, nm)]

\* Component.rename; names of the model are shorter than max_name_length
rename_keeping_old_entry(h, c, nm, cache) ==
  IF h.name[c] = nm THEN h
  ELSE
    LET cnt == Get(h.name_counters, nm, 0) + 1
        final == IF cache /\ cnt > 1 THEN Suffixed(nm, cnt - 1) ELSE nm
    IN IF cache
       THEN [h EXCEPT !.name_counters = Put(@, nm, cnt),
                      !.CACHE = Put(@, final, c),
                      !.name[c] = final]
       ELSE [h EXCEPT !.name[c] = final]

rename(h, c, nm, cache) ==
  IF h.name[c] = nm THEN h
  ELSE
    LET h1 == IF Get(h.CACHE, h.name[c], 0) = c
              THEN remove_from_cache(h, h.name[c]) ELSE h
        cnt == Get(h1.name_counters, nm, 0) + 1
        final == IF cache /\ cnt > 1 THEN Suffixed(nm, cnt - 1) ELSE nm
    IN IF cache
       THEN [h1 EXCEPT !.name_counters = Put(@, nm, cnt),
                       !.CACHE = Put(@, final, c),
                       !.name[c] = final]
       ELSE [h1 EXCEPT !.name[c] = final]

\* the name Component.__init__ settles on before it counts it
InitName(h, requested) ==
  IF requested = "Unnamed" THEN "Unnamed_" \o ToString(h.n + 1) ELSE requested

NewComponent_suffix_is_count(h, requested) ==
  LET c == h.n + 1
      nm0 == InitName(h, requested)
      cnt == Get(h.name_counters, nm0, 0) + 1
      nm == IF cnt > 1 THEN Suffixed(nm0, cnt) ELSE nm0
  IN [h EXCEPT !.n = c,
               !.name_counters = Put(@, nm0, cnt),
               !.name = Append(@, nm),
               !.locked = Append(@, FALSE),
               !.references = Append(@, <<>>),
               !.named_references = Append(@, EmptyDict),
               !.reference_names_counter = Append(@, EmptyDict),
               !.polygons = Append(@, <<>>),
               !.ports = Append(@, EmptyDict)]

\* Component.__init__; the uid is the object number
NewComponent(h, requested) ==
  LET c == h.n + 1
      nm0 == InitName(h, requested)
      cnt == Get(h.name_counters, nm0, 0) + 1
      nm == IF cnt > 1 THEN Suffixed(nm0, cnt - 1) ELSE nm0
      h1 == [h EXCEPT !.n = c,
                      !.name_counters = Put(@, nm0, cnt),
                      !.name = Append(@, nm),
                      !.locked = Append(@, FALSE),
                      !.references = Append(@, <<>>),
                      !.named_references = Append(@, EmptyDict),
                      !.reference_names_counter = Append(@, EmptyDict),
                      !.polygons = Append(@, <<>>),
                      !.ports = Append(@, EmptyDict)]
  IN rename(h1, c, nm, TRUE)

\* ------------------------------------------------------------------- lock
unlock(h, c) == [Warn(h) EXCEPT !.locked[c] = FALSE]

lock(h, c) == [Warn(h) EXCEPT !.locked[c] = TRUE]

\* Component.is_unlocked
is_unlocked(h, c) ==
  IF h.locked[c]
  THEN IF h.raise_error_on_mutation THEN Raise(h, "MutabilityError") ELSE Warn(h)
  ELSE h

\* --------------------------------------------------------------- polygons
\* A polygon is [layer, area]: its vertices are abstracted to whether the
\* area they enclose is positive.  The layer argument of add_polygon is
\* [kind |-> "none"] (None), [kind |-> "nan"] (left at its default np.nan),
\* [kind |-> "layer", layer |-> l] or [kind |-> "set", layers |-> <<l1, ..>>].
Polygon(layer, area) == [layer |-> layer, area |-> area]

_add_polygons_unchecked(h, c, ps) == [h EXCEPT !.polygons[c] = @ \o ps]

\* Component._add_polygons
_add_polygons(h, c, ps) ==
  LET h1 == is_unlocked(h, c)
  IN IF h1.exc # "" THEN h1 ELSE [h1 EXCEPT !.polygons[c] = @ \o ps]

\* "if polygon.area() > 0: self._add_polygons(polygon)", polygon by polygon
RECURSIVE AddEachPositive(_, _, _)
AddEachPositive(h, c, ps) ==
  IF ps = <<>> \/ h.exc # "" THEN h
  ELSE AddEachPositive(
         IF Head(ps).area > 0 THEN _add_polygons(h, c, <<Head(ps)>>) ELSE h,
         c, Tail(ps))

\* "self._add_polygons(polygon)" with no test of the area, polygon by polygon
RECURSIVE AddEach(_, _, _)
AddEach(h, c, ps) ==
  IF ps = <<>> \/ h.exc # "" THEN h
  ELSE AddEach(_add_polygons(h, c, <<Head(ps)>>), c, Tail(ps))

Positive(ps) == SelectSeq(ps, LAMBDA p : p.area > 0)

\* add_polygon for one resolved layer value; form names the type of `points`:
\*   "gdstk"          a gdstk.Polygon that carries its own layer `own`
\*   "array2"         an array of one polygon's vertices (ndim 2)
\*   "array3"         an array of several polygons (ndim 3)
\*   "array1"         a ragged list of polygons (ndim 1)
\*   "shapely"        a shapely polygon without interiors
\*   "shapely_holes"  a shapely polygon with interiors; areas are those of the
\*                    pieces gdstk.boolean returns
\*   "geoms"          a shapely multi-polygon of polygons without interiors
add_polygon_on(h, c, form, nan, layer, own, areas) ==
  LET arrayLayer == IF nan THEN 0 ELSE layer
      ownLayer == IF nan THEN own ELSE layer
  IN CASE form = "gdstk" ->
            AddEachPositive(h, c, <<Polygon(ownLayer, areas[1])>>)
       [] form = "array2" ->
            AddEachPositive(h, c, <<Polygon(arrayLayer, areas[1])>>)
       [] form = "array1" ->
            AddEachPositive(h, c, [i \in 1..Len(areas) |-> Polygon(arrayLayer, areas[i])])
       [] form = "array3" ->
            _add_polygons(h, c,
              Positive([i \in 1..Len(areas) |-> Polygon(arrayLayer, areas[i])]))
       [] form = "shapely" ->
            _add_polygons(h, c, <<Polygon(layer, areas[1])>>)
       [] form = "shapely_holes" ->
            AddEachPositive(h, c, [i \in 1..Len(areas) |-> Polygon(layer, areas[i])])
       [] form = "geoms" ->
            AddEach(h, c, [i \in 1..Len(areas) |-> Polygon(layer, areas[i])])

RECURSIVE AddOnLayers(_, _, _, _, _, _)
AddOnLayers(h, c, form, layers, own, areas) ==
  IF layers = <<>> \/ h.exc # "" THEN h
  ELSE AddOnLayers(add_polygon_on(h, c, form, FALSE, Head(layers), own, areas),
                   c, form, Tail(layers), own, areas)

\* Component.add_polygon
add_polygon(h, c, form, layer, own, areas) ==
  CASE layer.kind = "none" -> h
    [] layer.kind = "set" -> AddOnLayers(h, c, form, layer.layers, own, areas)
    [] layer.kind = "nan" -> add_polygon_on(h, c, form, TRUE, 0, own, areas)
    [] layer.kind = "layer" -> add_polygon_on(h, c, form, FALSE, layer.layer, own, areas)

\* ------------------------------------------------------------------ ports
\* A Port is [name, orientation]; NoName is a name argument left at None.
NoName == ""
Port(nm, orientation) == [name |-> nm, orientation |-> orientation]

\* Component.add_port(name=nm, port=port): the stored port is a copy of
\* `port` that carries the name nm when one is given
add_port(h, c, nm, port) ==
  LET p == IF nm = NoName THEN port ELSE [port EXCEPT !.name = nm]
  IN IF p.name \in DOMAIN h.ports[c]
     THEN Raise(h, "ValueError")
     ELSE [h EXCEPT !.ports[c] = Put(@, p.name, p)]

\* Component.add_ports(ports) for a dict: add_port(name=key, port=value),
\* key by key
RECURSIVE add_ports(_, _, _, _)
add_ports(h, c, ps, keys) ==
  IF keys = {} \/ h.exc # "" THEN h
  ELSE LET k == CHOOSE x \in keys : TRUE
       IN add_ports(add_port(h, c, k, ps[k]), c, ps, keys \ {k})

\* Port.copy: a new Port object with the fields of the old one
Port_copy(h, port) == [h EXCEPT !.portobj = Append(@, @[port])]

\* Component.add_port(name=nm, port=port) for a Port object the caller
\* holds: "p = port.copy()", "p.name = name" when a name is given, and the
\* copy is stored under its name unless the name is taken.  The in_place
\* variant renames and stores the caller's object.
add_port_of_in_place(h, c, nm, port) ==
  LET h1 == IF nm = NoName THEN h ELSE [h EXCEPT !.portobj[port].name = nm]
  IN IF h1.portobj[port].name \in DOMAIN h1.ports[c]
     THEN Raise(h1, "ValueError")
     ELSE [h1 EXCEPT !.ports[c] = Put(@, h1.portobj[port].name, h1.portobj[port])]

add_port_of(h, c, nm, port) ==
  LET p == Len(h.portobj) + 1
      h0 == Port_copy(h, port)
      h1 == IF nm = NoName THEN h0 ELSE [h0 EXCEPT !.portobj[p].name = nm]
  IN IF h1.portobj[p].name \in DOMAIN h1.ports[c]
     THEN Raise(h1, "ValueError")
     ELSE [h1 EXCEPT !.ports[c] = Put(@, h1.portobj[p].name, h1.portobj[p])]

\* -------------------------------------------------------------- references
\* A ComponentReference is [parent, origin, rotation, name, owner]: parent is
\* the referenced Component (ref.parent, ref.ref_cell), origin is one
\* coordinate in units of half a grid step, rotation is in degrees, name is
\* the alias (NoName for None) and owner the owning Component (0 for None).
Reference(parent, origin, rotation, nm) ==
  [parent |-> parent, origin |-> origin, rotation |-> rotation,
   name |-> nm, owner |-> 0]

NewReference(h, ref) == [h EXCEPT !.refobj = Append(@, ref)]

_add_unchecked(h, c, r) == [h EXCEPT !.references[c] = Append(@, r)]

\* Component._add for a ComponentReference
_add(h, c, r) ==
  LET h1 == is_unlocked(h, c)
  IN IF h1.exc # "" THEN h1 ELSE [h1 EXCEPT !.references[c] = Append(@, r)]

Alias(prefix, k) == prefix \o "_" \o ToString(k)

\* the counter value at which the "while alias in self._named_references"
\* loop of _register_reference stops, starting from the value k
RECURSIVE FreeCount(_, _, _)
FreeCount(named, prefix, k) ==
  IF Alias(prefix, k) \in DOMAIN named THEN FreeCount(named, prefix, k + 1) ELSE k

\* Component._register_reference; function_name is empty for a Component
\* that no generator made, so the prefix is the name of the referenced one
_register_reference(h, c, r, alias) ==
  LET ref == h.refobj[r]
      prefix == h.name[ref.parent]
      k == FreeCount(h.named_references[c], prefix,
                     Get(h.reference_names_counter[c], prefix, 0) + 1)
      auto == alias = NoName /\ ref.name = NoName
      final == IF alias # NoName THEN alias
               ELSE IF ref.name # NoName THEN ref.name
               ELSE Alias(prefix, k)
  IN [h EXCEPT !.refobj[r].owner = c,
               !.refobj[r].name = final,
               !.reference_names_counter[c] = IF auto THEN Put(@, prefix, k) ELSE @,
               !.named_references[c] = Put(@, final, r)]

\* Component.add_ref; target 0 stands for an argument that is no Component
add_ref(h, c, target, alias, origin, rotation) ==
  IF target = 0 THEN Raise(h, "TypeError")
  ELSE LET r == Len(h.refobj) + 1
           h1 == NewReference(h, Reference(target, origin, rotation, NoName))
           h2 == _add(h1, c, r)
       IN IF h2.exc # "" THEN h2 ELSE _register_reference(h2, c, r, alias)

\* Component.add_array; the columns, rows and spacing of the array are not
\* modelled, target 0 stands for an argument that is no Component
add_array(h, c, target, alias) ==
  IF target = 0 THEN Raise(h, "TypeError")
  ELSE LET r == Len(h.refobj) + 1
           h1 == NewReference(h, Reference(target, 0, 0, NoName))
           Register(added) ==
             IF added.exc # "" THEN added ELSE _register_reference(added, c, r, alias)
       IN Register(_add(h1, c, r))

\* Component.add for a ComponentReference
add(h, c, r) == _add(_register_reference(h, c, r, NoName), c, r)

\* Component.remove of a Port: drops every entry whose value equals it
remove_port(h, c, p) ==
  [h EXCEPT !.ports[c] = [k \in {x \in DOMAIN @ : @[x] # p} |-> @[k]]]

\* Component.remove of a ComponentReference
remove_reference(h, c, r) ==
  IF r \notin SeqToSet(h.references[c]) THEN Raise(h, "ValueError")
  ELSE IF h.refobj[r].name \notin DOMAIN h.named_references[c]
  THEN Raise([h EXCEPT !.references[c] = ListRemove(@, r), !.refobj[r].owner = 0],
             "KeyError")
  ELSE [h EXCEPT !.references[c] = ListRemove(@, r),
                 !.refobj[r].owner = 0,
                 !.named_references[c] = Del(@, h.refobj[r].name)]

\* Component.remove of a polygon, the i-th of the cell
remove_polygon(h, c, i) ==
  [h EXCEPT !.polygons[c] =
     SubSeq(@, 1, i - 1) \o SubSeq(@, i + 1, Len(@))]

\* _get_dependencies / Component.get_dependencies(recursive=True)
RECURSIVE get_dependencies(_, _)
get_dependencies(h, c) ==
  LET direct == {h.refobj[r].parent : r \in SeqToSet(h.references[c])}
  IN direct \cup UNION {get_dependencies(h, d) : d \in direct}

\* the polygons gdstk's Cell.flatten and Reference.get_polygons collect: the
\* cell's own, then those of every reference, to any depth
RECURSIVE AllPolygons(_, _)
RECURSIVE RefPolygons(_, _)
AllPolygons(h, c) == h.polygons[c] \o RefPolygons(h, h.references[c])
RefPolygons(h, rs) ==
  IF rs = <<>> THEN <<>>
  ELSE AllPolygons(h, h.refobj[Head(rs)].parent) \o RefPolygons(h, Tail(rs))

\* --------------------------------------------------------------------- copy
\* copy_reference: a new reference object with the fields of the old one
copy_reference_at_origin(h, r) ==
  NewReference(h, [h.refobj[r] EXCEPT !.owner = 0, !.origin = 0])

copy_reference(h, r) ==
  NewReference(h, [h.refobj[r] EXCEPT !.owner = 0])

\* "for ref in D.references: c.add(copy_reference(ref))"
RECURSIVE CopyReferences(_, _, _)
CopyReferences(h, c, rs) ==
  IF rs = <<>> \/ h.exc # "" THEN h
  ELSE LET h1 == copy_reference(h, Head(rs))
       IN CopyReferences(add(h1, c, Len(h1.refobj)), c, Tail(rs))

\* "for port in D.ports.values(): c.add_port(port=port)"
RECURSIVE CopyPorts(_, _, _, _)
CopyPorts(h, c, ps, keys) ==
  IF keys = {} \/ h.exc # "" THEN h
  ELSE LET k == CHOOSE x \in keys : TRUE
       IN CopyPorts(add_port(h, c, NoName, ps[k]), c, ps, keys \ {k})

\* "for poly in D.polygons: c.add_polygon(poly)"
RECURSIVE CopyPolygons(_, _, _)
CopyPolygons(h, c, ps) ==
  IF ps = <<>> \/ h.exc # "" THEN h
  ELSE CopyPolygons(
         add_polygon(h, c, "gdstk", [kind |-> "nan"], Head(ps).layer, <<Head(ps).area>>),
         c, Tail(ps))

\* the module function copy(D); the new Component is number h.n + 1
copy_unlocking(h, D) ==
  LET c == h.n + 1
      h0 == NewComponent(h, "Unnamed")
      h1 == CopyReferences(h0, c, h.references[D])
      h2 == CopyPorts(h1, c, h.ports[D], DOMAIN h.ports[D])
  IN [CopyPolygons(h2, c, h.polygons[D]) EXCEPT !.locked[D] = FALSE]

copy(h, D) ==
  LET c == h.n + 1
      h0 == NewComponent(h, "Unnamed")
      h1 == CopyReferences(h0, c, h.references[D])
      h2 == CopyPorts(h1, c, h.ports[D], DOMAIN h.ports[D])
  IN CopyPolygons(h2, c, h.polygons[D])

\* Component.copy(name)
Component_copy(h, D, nm) ==
  LET Named(c) ==
        IF c.exc # "" \/ nm = NoName THEN c ELSE rename(c, c.n, nm, TRUE)
  IN Named(copy(h, D))

\* Component.flatten; the new Component is number h.n + 1
flatten_keeping_references(h, c) ==
  LET f == h.n + 1
      h0 == NewComponent(h, "Unnamed")
      h1 == [h0 EXCEPT !.polygons[f] = h.polygons[c], !.references[f] = h.references[c]]
  IN add_ports(h1, f, h.ports[c], DOMAIN h.ports[c])

flatten_twice_own(h, c) ==
  LET f == h.n + 1
      h0 == NewComponent(h, "Unnamed")
      h1 == [h0 EXCEPT !.polygons[f] = AllPolygons(h, c) \o h.polygons[c]]
  IN add_ports(h1, f, h.ports[c], DOMAIN h.ports[c])

flatten(h, c) ==
  LET f == h.n + 1
      h0 == NewComponent(h, "Unnamed")
      h1 == [h0 EXCEPT !.polygons[f] = AllPolygons(h, c)]
  IN add_ports(h1, f, h.ports[c], DOMAIN h.ports[c])

\* gdsfactory.functions.transformed(ref): a new Component, made by a cell
\* generator and so named, cached and locked, that holds the polygons of the
\* reference and has no references of its own
transformed(h, r) ==
  LET t == h.n + 1
      h0 == NewComponent(h, "Unnamed")
      h1 == [h0 EXCEPT !.polygons[t] = AllPolygons(h, h.refobj[r].parent)]
      h2 == rename(h1, t, "transformed_" \o ToString(r), TRUE)
  IN [h2 EXCEPT !.locked[t] = TRUE]

\* Component.flatten_reference
flatten_reference(h, c, r) ==
  LET Replace(removed) ==
        IF removed.exc # "" THEN removed
        ELSE add_ref(transformed(removed, r), c, removed.n + 1,
                     h.refobj[r].name, 0, 0)
  IN Replace(remove_reference(h, c, r))

\* Component.absorb: the polygons of the reference are added to the
\* Component and the reference is removed (the references of the model
\* carry no labels and no paths)
absorb(h, c, r) ==
  IF r \notin SeqToSet(h.references[c]) THEN Raise(h, "ValueError")
  ELSE LET Remove(added) ==
             IF added.exc # "" THEN added ELSE remove_reference(added, c, r)
       IN Remove(_add_polygons(h, c, AllPolygons(h, h.refobj[r].parent)))

\* Component.remap_layers; layermap is a dict layer -> layer
remap_layers(h, c, layermap) ==
  LET Remap(p) == [p EXCEPT !.layer = Get(layermap, @, @)]
      RemapCells(copied) ==
        LET component == copied.n
            cells == get_dependencies(copied, component) \cup {component}
        IN IF copied.exc # "" THEN copied
           ELSE [copied EXCEPT !.polygons =
                   [x \in 1..copied.n |->
                      IF x \in cells
                      THEN [i \in 1..Len(copied.polygons[x]) |->
                              Remap(copied.polygons[x][i])]
                      ELSE copied.polygons[x]]]
  IN RemapCells(Component_copy(h, c, NoName))

\* Component.remove_layers; returns [h, ret]
remove_layers(h, c, layers, invert_selection, recursive) ==
  LET Keep(p) == IF invert_selection THEN p.layer \in layers ELSE p.layer \notin layers
      Filter(h1, component) ==
        IF h1.exc # "" THEN [h |-> h1, ret |-> 0]
        ELSE [h |-> [h1 EXCEPT !.polygons[component] = SelectSeq(@, Keep)],
              ret |-> component]
  IN IF recursive /\ h.references[c] # <<>>
     THEN Filter(flatten(h, c), h.n + 1)
     ELSE Filter(h, c)

\* Component.extract; returns [h, ret]
extract_in_place(h, c, layers, recursive) ==
  remove_layers(h, c, layers, TRUE, recursive)

extract(h, c, layers, recursive) ==
  LET Select(copied) ==
        IF copied.exc # "" THEN [h |-> copied, ret |-> 0]
        ELSE remove_layers(copied, copied.n, layers, TRUE, recursive)
  IN Select(Component_copy(h, c, NoName))

\* --------------------------------------------------------------- normalizer
\* gdsfactory.decorators.is_invalid_ref: the rotation is no multiple of 90
\* degrees or the origin is off the grid; origins are counted in half grid
\* steps, so an odd origin is off the grid
is_invalid_ref(ref) == ref.rotation % 90 # 0 \/ ref.origin % 2 # 0

\* the second loop of flatten_offgrid_references_recursive, over a copy of
\* the references of the new component
RECURSIVE FixReferences(_, _, _, _, _)
FixReferences(h, new, rs, invalid_refs, updated) ==
  IF rs = <<>> \/ h.exc # "" THEN h
  ELSE LET r == Head(rs)
           ref == h.refobj[r]
           pname == h.name[ref.parent]
           h1 == IF ref.name \in invalid_refs THEN flatten_reference(h, new, r)
                 ELSE IF pname \in DOMAIN updated /\ ref.parent # updated[pname]
                 THEN [h EXCEPT !.refobj[r].parent = updated[pname]]
                 ELSE h
       IN FixReferences(h1, new, Tail(rs), invalid_refs, updated)

\* flatten_offgrid_references_recursive.  The state of a call is
\* [h, updated, traversed, invalid_refs, subcell_modified]; the call returns
\* [h, updated, traversed, ret].  "updated_components or {}" makes a new dict
\* when the argument is None or empty, so the caller sees what the callee
\* stored only if the dict it passed was not empty; the same for the set.
RECURSIVE flatten_offgrid_references_recursive(_, _, _, _, _)
RECURSIVE ScanReferences(_, _)
ScanReferences(st, rs) ==
  IF rs = <<>> THEN st
  ELSE
    LET ref == st.h.refobj[Head(rs)]
        pname == st.h.name[ref.parent]
        call == pname \notin st.traversed
        sub == flatten_offgrid_references_recursive(
                 st.h, ref.parent, st.updated, st.traversed, FALSE)
        upd == IF call /\ st.updated # EmptyDict THEN sub.updated ELSE st.updated
        trav == IF call /\ st.traversed # {} THEN sub.traversed ELSE st.traversed
    IN IF is_invalid_ref(ref)
       THEN ScanReferences([st EXCEPT !.invalid_refs = @ \cup {ref.name}], Tail(rs))
       ELSE ScanReferences(
              [st EXCEPT !.h = IF call THEN sub.h ELSE @,
                         !.updated = upd,
                         !.traversed = trav,
                         !.subcell_modified = @ \/ pname \in DOMAIN upd],
              Tail(rs))

flatten_offgrid_references_recursive(h, component, updated_components, traversed_components, keep_names) ==
  LET Update(st) ==
        LET new == st.h.n + 1
            Fix(renamed) ==
              FixReferences(renamed, new, renamed.references[new],
                            st.invalid_refs, st.updated)
            Rename(copied) ==
              IF keep_names
              THEN rename(copied, new, copied.name[component], FALSE)
              ELSE rename(copied, new, copied.name[component] \o "_offgrid", TRUE)
            Return(fixed) ==
              [h |-> fixed,
               updated |-> Put(st.updated, fixed.name[new], new),
               traversed |-> st.traversed \cup {fixed.name[new]},
               ret |-> new]
        IN IF st.invalid_refs # {} \/ st.subcell_modified
           THEN Return(Fix(Rename(Component_copy(st.h, component, NoName))))
           ELSE [h |-> st.h,
                 updated |-> st.updated,
                 traversed |-> st.traversed \cup {h.name[component]},
                 ret |-> component]
  IN Update(ScanReferences(
              [h |-> h, updated |-> updated_components,
               traversed |-> traversed_components,
               invalid_refs |-> {}, subcell_modified |-> FALSE],
              h.references[component]))

\* ---------------------------------------------------------------- get_ports
\* A port with a place: center is <<x, y>>.  The origin of a reference is
\* the point <<origin, 0>>.
PortAt(nm, center, orientation) ==
  [name |-> nm, orientation |-> orientation, center |-> center]

\* a depth argument left at None
None == -1

\* a point rotated about <<0, 0>> by a multiple of 90 degrees
Rotated(point, rotation) ==
  CASE rotation % 360 = 0 -> point
    [] rotation % 360 = 90 -> <<-point[2], point[1]>>
    [] rotation % 360 = 180 -> <<-point[1], -point[2]>>
    [] rotation % 360 = 270 -> <<point[2], -point[1]>>

\* ComponentReference._transform_port: reflect about the x axis, rotate,
\* translate; the orientation follows and is taken mod 360
_transform_port(point, orientation, origin, rotation, x_reflection) ==
  LET reflected == IF x_reflection THEN <<point[1], -point[2]>> ELSE point
      turned == Rotated(reflected, rotation)
  IN [center |-> <<turned[1] + origin, turned[2]>>,
      orientation |-> ((IF x_reflection THEN -orientation ELSE orientation)
                         + rotation) % 360]

\* Component.get_ports: the copies of the Component's own ports and, down to
\* the given depth, of those of its references with new_port.center and
\* new_port.new_orientation set from _transform_port.  The list is given as
\* the set of its elements; the references of the model are not reflected.
RECURSIVE get_ports(_, _, _)
get_ports(h, c, depth) ==
  LET port_list == {h.ports[c][k] : k \in DOMAIN h.ports[c]}
      new_depth == IF depth = None THEN None ELSE depth - 1
      Transformed(rp, r) ==
        LET new == _transform_port(rp.center, rp.orientation,
                                   r.origin, r.rotation, FALSE)
        IN Put(Put(rp, "center", new.center), "new_orientation", new.orientation)
      RefPorts(r) ==
        {Transformed(rp, r) : rp \in get_ports(h, r.parent, new_depth)}
  IN IF depth = None \/ depth > 0
     THEN port_list \cup UNION {RefPorts(h.refobj[i]) : i \in SeqToSet(h.references[c])}
     ELSE port_list

\* ------------------------------------------------------------ hash_geometry
\* _rnd: the points rounded to the precision and counted in units of it.  A
\* polygon's points are the number in its field area; precisions are given
\* in the unit of the points.
_rnd(arr, precision) == (2 * arr + precision) \div (2 * precision)

\* the keys of the dict that get_polygons(by_spec=True) returns, in the order
\* of the dict: the layers of the polygons of the cell and of its references,
\* each at the place of its first polygon
RECURSIVE LayerKeys(_, _)
LayerKeys(ps, seen) ==
  IF ps = <<>> THEN <<>>
  ELSE IF Head(ps).layer \in seen THEN LayerKeys(Tail(ps), seen)
  ELSE <<Head(ps).layer>> \o LayerKeys(Tail(ps), seen \cup {Head(ps).layer})

\* np.sort of a list of digests
RECURSIVE Sorted(_)
Sorted(s) ==
  IF s = <<>> THEN <<>>
  ELSE LET i == CHOOSE k \in 1..Len(s) : \A j \in 1..Len(s) : s[k] <= s[j]
       IN <<s[i]>> \o Sorted(SubSeq(s, 1, i - 1) \o SubSeq(s, i + 1, Len(s)))

\* the updates of final_hash for the layers still to visit: the layer, then
\* the sorted digests of its rounded polygons.  sha1 is taken to be free of
\* collisions: a digest is the data it was fed.
RECURSIVE HashLayers(_, _, _)
HashLayers(ps, layers, precision) ==
  IF layers = <<>> THEN <<>>
  ELSE LET on_layer == SelectSeq(ps, LAMBDA p : p.layer = Head(layers))
           polygon_hashes ==
             Sorted([i \in 1..Len(on_layer) |-> _rnd(on_layer[i].area, precision)])
       IN <<[layer |-> Head(layers), polygons |-> polygon_hashes]>>
            \o HashLayers(ps, Tail(layers), precision)

\* Component.hash_geometry: the layers are visited in the order of the keys
\* of polygons_by_spec
hash_geometry(h, c, precision) ==
  HashLayers(AllPolygons(h, c), LayerKeys(AllPolygons(h, c), {}), precision)

\* ------------------------------------------------------------------ export
\* gdsfactory.decorators.has_valid_transformations: no reference of the
\* hierarchy under the component is invalid
has_valid_transformations(h, c) ==
  \A r \in 1..Len(h.refobj) :
    h.refobj[r].owner \in {c} \cup get_dependencies(h, c) => ~is_invalid_ref(h.refobj[r])

\* _check_uncached_components
_check_uncached_components(h, component, mode) ==
  IF mode = "ignore" THEN h
  ELSE IF mode \notin {"warn", "error", "ignore"} THEN Raise(h, "ValueError")
  ELSE IF \A d \in get_dependencies(h, component) : h.locked[d] THEN h
  ELSE IF mode = "warn" THEN Warn(h)
  ELSE Raise(h, "UncachedComponentError")

\* what is left of cell_names in _write_library once one occurrence of each
\* unique name is removed, as a bag: name -> occurrences left.  cells is a
\* set of Components, so a Component counts once however often it is
\* referenced (the per_reference variant counts it once per reference).
DuplicatedNames_per_reference(h, top_cell) ==
  LET cells == get_dependencies(h, top_cell)
      refs == {r \in 1..Len(h.refobj) :
                 /\ h.refobj[r].owner \in {top_cell} \cup cells
                 /\ r \in SeqToSet(h.references[h.refobj[r].owner])}
      Occurrences(nm) == Cardinality({r \in refs : h.name[h.refobj[r].parent] = nm})
  IN [nm \in {k \in {h.name[x] : x \in cells} : Occurrences(k) > 1}
        |-> Occurrences(nm) - 1]
DuplicatedNames(h, top_cell) ==
  LET cells == get_dependencies(h, top_cell)
      Occurrences(nm) == Cardinality({x \in cells : h.name[x] = nm})
  IN [nm \in {k \in {h.name[x] : x \in cells} : Occurrences(k) > 1}
        |-> Occurrences(nm) - 1]

\* the gdstk.Library that _write_library fills: the top cell and
\* top_cell._cell.dependencies(True), each cell with its name and the cells
\* its references point at
Library(h, top_cell) ==
  [x \in {top_cell} \cup get_dependencies(h, top_cell) |->
     [name |-> h.name[x],
      targets |-> [i \in 1..Len(h.references[x]) |-> h.refobj[h.references[x][i]].parent]]]

\* Component._write_library with gdspath None and no metadata or netlist;
\* write_settings is the record of the settings the function reads.  Returns
\* [h, top_cell, names]: names is the list of names of the error message or
\* the warning about duplicated cells.
_write_library(h, self, write_settings) ==
  LET policy == write_settings.on_duplicate_cell
      Top(checked) ==
        IF write_settings.flatten_offgrid_references
        THEN flatten_offgrid_references_recursive(checked, self, EmptyDict, {}, TRUE)
        ELSE [h |-> IF has_valid_transformations(checked, self)
                    THEN checked ELSE Warn(checked),
              ret |-> self]
      Duplicates(g, names) ==
        IF names = EmptyDict THEN g
        ELSE IF policy = "error" THEN Raise(g, "ValueError: Duplicated cell names")
        ELSE IF policy = "warn" THEN Warn(g)
        ELSE IF policy = "overwrite" THEN g
        ELSE IF policy # "None" THEN Raise(g, "ValueError: on_duplicate_cell")
        ELSE g
      Save(g, top_cell, names) ==
        IF g.exc # "" THEN [h |-> g, top_cell |-> top_cell, names |-> names]
        ELSE [h |-> [g EXCEPT !.files = Put(@, g.name[top_cell] \o ".gds",
                                             Library(g, top_cell)),
                              !.last_saved_files =
                                Append(@, g.name[top_cell] \o ".gds")],
              top_cell |-> top_cell, names |-> names]
      Collect(g, top_cell, names) == Save(Duplicates(g, names), top_cell, names)
      Write(top) ==
        IF top.h.exc # "" THEN [h |-> top.h, top_cell |-> top.ret, names |-> EmptyDict]
        ELSE Collect(top.h, top.ret, DuplicatedNames(top.h, top.ret))
      Checked(checked) ==
        IF checked.exc # "" THEN [h |-> checked, top_cell |-> self, names |-> EmptyDict]
        ELSE Write(Top(checked))
  IN Checked(_check_uncached_components(h, self, write_settings.on_uncached_component))

\* ================================================================ lifecycle
\* Behaviours of the name counter, the cache and the lock: Components are
\* created, renamed, locked, unlocked and copied.
Names == {"X", "X$1"}

Components == 1..n

EmptyHist == [created |-> EmptyDict, renamed |-> EmptyDict, uncached |-> FALSE]

Init ==
  /\ n = 0
  /\ name = <<>>
  /\ locked = <<>>
  /\ references = <<>>
  /\ named_references = <<>>
  /\ reference_names_counter = <<>>
  /\ polygons = <<>>
  /\ ports = <<>>
  /\ refobj = <<>>
  /\ portobj = <<>>
  /\ name_counters = EmptyDict
  /\ CACHE = EmptyDict
  /\ raise_error_on_mutation \in BOOLEAN
  /\ last_saved_files = <<>>
  /\ files = EmptyDict
  /\ exc = ""
  /\ warned = FALSE
  /\ result = [op |-> "init"]
  /\ hist = EmptyHist

Count(d, k) == Put(d, k, Get(d, k, 0) + 1)

RECURSIVE SumOver(_, _)
SumOver(d, keys) ==
  IF keys = {} THEN 0
  ELSE LET k == CHOOSE x \in keys : TRUE IN d[k] + SumOver(d, keys \ {k})

\* the number of names counted so far
Counted == SumOver(name_counters, DOMAIN name_counters)

\* hist after a Component.__init__ that settles on the name nm0
HistCreated(hs, nm0) == [hs EXCEPT !.created = Count(@, nm0)]

\* hist after c.rename(nm, cache) called in the heap h
HistRenamed(hs, h, c, nm, cache) ==
  IF h.name[c] = nm THEN hs
  ELSE IF cache THEN [hs EXCEPT !.renamed = Count(@, nm)]
  ELSE [hs EXCEPT !.uncached = TRUE]

\* c = Component(requested)
Create(requested) ==
  /\ n < MaxCanvas
  /\ Counted < MaxCount
  /\ Commit(NewComponent(Heap, requested))
  /\ result' = [op |-> "Component", c |-> n + 1, requested |-> InitName(Heap, requested)]
  /\ hist' = HistCreated(hist, InitName(Heap, requested))

\* c.rename(nm, cache=cache)
Rename(c, nm, cache) ==
  /\ Counted < MaxCount
  /\ Commit(rename(Heap, c, nm, cache))
  /\ result' = [op |-> "rename", c |-> c]
  /\ hist' = HistRenamed(hist, Heap, c, nm, cache)

\* c.name = nm
SetName(c, nm) ==
  /\ Counted < MaxCount
  /\ Commit(rename(Heap, c, nm, TRUE))
  /\ result' = [op |-> "rename", c |-> c]
  /\ hist' = HistRenamed(hist, Heap, c, nm, TRUE)

\* c.lock()
Lock(c) ==
  /\ Commit(lock(Heap, c))
  /\ result' = [op |-> "lock", c |-> c]
  /\ UNCHANGED hist

\* c.unlock()
Unlock(c) ==
  /\ Commit(unlock(Heap, c))
  /\ result' = [op |-> "unlock", c |-> c]
  /\ UNCHANGED hist

\* c2 = c.copy(nm)
Copy(c, nm) ==
  /\ n < MaxCanvas
  /\ Counted + 1 < MaxCount
  /\ Commit(Component_copy(Heap, c, nm))
  /\ result' = [op |-> "copy", src |-> c, c |-> n + 1]
  /\ hist' = LET h1 == copy(Heap, c)
                 hs == HistCreated(hist, InitName(Heap, "Unnamed"))
             IN IF nm = NoName THEN hs ELSE HistRenamed(hs, h1, n + 1, nm, TRUE)

Next ==
  \/ \E requested \in Names \cup {"Unnamed"} : Create(requested)
  \/ \E c \in Components, nm \in Names, cache \in BOOLEAN : Rename(c, nm, cache)
  \/ \E c \in Components, nm \in Names : SetName(c, nm)
  \/ \E c \in Components : Lock(c)
  \/ \E c \in Components : Unlock(c)
  \/ \E c \in Components, nm \in Names \cup {NoName} : Copy(c, nm)

Spec == Init /\ [][Next]_vars

\* ----------------------------------------------------------------- renaming
\* Behaviours of the cache under renames: Components are created and
\* renamed, with and without the cache, to new names and to their own.
RenameOp == "rename(name, cache)"

\* c.rename(nm, cache=cache)
RenameTo(c, nm, cache) ==
  /\ Counted < MaxCount
  /\ Commit(rename(Heap, c, nm, cache))
  /\ result' = [op |-> RenameOp, c |-> c, nm |-> nm, cache |-> cache]
  /\ hist' = HistRenamed(hist, Heap, c, nm, cache)

NextCache ==
  \/ \E requested \in Names \cup {"Unnamed"} : Create(requested)
  \/ \E c \in Components, nm \in Names, cache \in BOOLEAN : RenameTo(c, nm, cache)

SpecCache == Init /\ [][NextCache]_vars

\* ================================================================= mutation
\* Behaviours of the content of Components: polygons, ports and references
\* are added and removed, Components are locked, remapped and filtered.
Layers == {1, 2}
PortNames == {"o1"}
Forms == {"gdstk", "array2", "array1", "array3", "shapely", "shapely_holes", "geoms"}
SingleForms == {"gdstk", "array2", "shapely"}
LayerArgs ==
  {[kind |-> "none"], [kind |-> "nan"], [kind |-> "set", layers |-> <<1, 2>>]}
    \cup {[kind |-> "layer", layer |-> l] : l \in Layers}
AreaLists == {<<0>>, <<1>>, <<0, 1>>, <<0, 0>>}

RECURSIVE SumLen(_, _)
SumLen(f, i) == IF i = 0 THEN 0 ELSE Len(f[i]) + SumLen(f, i - 1)
RECURSIVE SumCard(_, _)
SumCard(f, i) == IF i = 0 THEN 0 ELSE Cardinality(DOMAIN f[i]) + SumCard(f, i - 1)

\* the polygons, ports and references of all Components
Items(h) == SumLen(h.polygons, h.n) + SumLen(h.references, h.n) + SumCard(h.ports, h.n)

\* the Components that existed before a call and whose polygons, ports,
\* references or aliases are not, in the heap h after it, what they were
Changed(h) ==
  {x \in Components :
     \/ h.polygons[x] # polygons[x]
     \/ h.ports[x] # ports[x]
     \/ h.references[x] # references[x]
     \/ h.named_references[x] # named_references[x]}

\* whether add_polygon, given these arguments, gets as far as inserting a
\* polygon into the cell
Inserts(form, layer, areas) ==
  /\ layer.kind # "none"
  /\ \/ form \in {"array3", "shapely", "geoms"}
     \/ \E i \in 1..Len(areas) : areas[i] > 0

\* c = Component()
Construct ==
  /\ Commit(NewComponent(Heap, "Unnamed"))
  /\ result' = [op |-> "Component", c |-> n + 1, requested |-> InitName(Heap, "Unnamed")]
  /\ hist' = HistCreated(hist, InitName(Heap, "Unnamed"))

Build ==
  /\ n < MaxMutCanvas
  /\ Construct

\* c.add_polygon(points, layer)
AddPolygon(c, form, layer, own, areas) ==
  /\ form \in SingleForms => Len(areas) = 1
  /\ layer.kind = "nan" => form \in {"gdstk", "array2", "array1", "array3"}
  /\ LET h == add_polygon(Heap, c, form, layer, own, areas)
     IN /\ Items(h) <= MaxItems
        /\ Commit(h)
        /\ result' = [op |-> "add_polygon", c |-> c, changed |-> Changed(h),
                      inserts |-> Inserts(form, layer, areas)]
  /\ UNCHANGED hist

\* c.add_port(name=nm, center=..., orientation=...)
AddPort(c, nm, orientation) ==
  /\ LET h == add_port(Heap, c, nm, Port(nm, orientation))
     IN /\ Items(h) <= MaxItems
        /\ Commit(h)
        /\ result' = [op |-> "add_port", c |-> c, changed |-> Changed(h)]
  /\ UNCHANGED hist

\* c.remove(c.ports[key])
RemovePort(c, key) ==
  /\ key \in DOMAIN ports[c]
  /\ LET h == remove_port(Heap, c, ports[c][key])
     IN /\ Commit(h)
        /\ result' = [op |-> "remove", c |-> c, changed |-> Changed(h)]
  /\ UNCHANGED hist

\* c.add_ref(target, alias, origin=..., rotation=...); the targets are the
\* Components from which c cannot be reached
AddRef(c, target, alias, origin, rotation) ==
  /\ Len(refobj) < MaxRefObjects
  /\ target # 0 => target # c /\ c \notin get_dependencies(Heap, target)
  /\ LET h == add_ref(Heap, c, target, alias, origin, rotation)
     IN /\ Items(h) <= MaxItems
        /\ Commit(h)
        /\ result' = [op |-> "add_ref", c |-> c, changed |-> Changed(h)]
  /\ UNCHANGED hist

\* c.remove(ref)
RemoveRef(c, r) ==
  /\ LET h == remove_reference(Heap, c, r)
     IN /\ Commit(h)
        /\ result' = [op |-> "remove", c |-> c, changed |-> Changed(h)]
  /\ UNCHANGED hist

\* c.remove(c.polygons[i])
RemovePolygon(c, i) ==
  /\ i \in 1..Len(polygons[c])
  /\ LET h == remove_polygon(Heap, c, i)
     IN /\ Commit(h)
        /\ result' = [op |-> "remove", c |-> c, changed |-> Changed(h)]
  /\ UNCHANGED hist

\* c2 = c.remap_layers(layermap)
RemapLayers(c, layermap) ==
  /\ n < MaxMutCanvas + MaxDerived
  /\ LET h == remap_layers(Heap, c, layermap)
     IN /\ Commit(h)
        /\ result' = [op |-> "remap_layers", c |-> c, ret |-> n + 1,
                      changed |-> Changed(h)]
  /\ hist' = HistCreated(hist, InitName(Heap, "Unnamed"))

\* c2 = c.remove_layers(layers, invert_selection=..., recursive=...)
RemoveLayers(c, layers, invert_selection, recursive) ==
  /\ recursive /\ references[c] # <<>> => n < MaxMutCanvas + MaxDerived
  /\ LET r == remove_layers(Heap, c, layers, invert_selection, recursive)
     IN /\ Commit(r.h)
        /\ result' = [op |-> "remove_layers", c |-> c, ret |-> r.ret,
                      changed |-> Changed(r.h)]
        /\ hist' = IF r.ret = c THEN hist
                   ELSE HistCreated(hist, InitName(Heap, "Unnamed"))

NextMut ==
  \/ Build
  \/ \E c \in Components : Lock(c)
  \/ \E c \in Components :
        AddPolygon(c, "array2", [kind |-> "layer", layer |-> 1], 1, <<1>>)
  \/ \E c \in Components, nm \in PortNames : AddPort(c, nm, 0)
  \/ \E c \in Components, key \in PortNames : RemovePort(c, key)
  \/ \E c \in Components, target \in Components \cup {0} :
        AddRef(c, target, NoName, 0, 0)
  \/ \E c \in Components, r \in 1..Len(refobj) : RemoveRef(c, r)
  \/ \E c \in Components, i \in 1..MaxItems : RemovePolygon(c, i)
  \/ \E c \in Components, from \in Layers, to \in Layers :
        RemapLayers(c, [l \in {from} |-> to])
  \/ \E c \in Components, l \in Layers, invert_selection \in BOOLEAN,
        recursive \in BOOLEAN : RemoveLayers(c, {l}, invert_selection, recursive)

SpecMut == Init /\ [][NextMut]_vars

\* ------------------------------------------------------------ add_polygon
\* Behaviours of one Component that is given polygons in every form
\* add_polygon accepts, before and after it is locked.
BuildOne ==
  /\ n < MaxPolyCanvas
  /\ Construct

\* the layers a gdstk.Polygon argument can carry; add_polygon reads that layer
\* only when no layer is given, and other forms of points carry none
OwnLayers(form, layer) ==
  IF form = "gdstk" /\ layer.kind = "nan" THEN Layers ELSE {1}

NextPoly ==
  \/ BuildOne
  \/ \E c \in Components : Lock(c)
  \/ \E c \in Components, form \in Forms, layer \in LayerArgs, areas \in AreaLists :
        \E own \in OwnLayers(form, layer) : AddPolygon(c, form, layer, own, areas)
  \/ \E c \in Components, i \in 1..MaxItems : RemovePolygon(c, i)

SpecPoly == Init /\ [][NextPoly]_vars

\* ------------------------------------------------------------ referencing
\* Behaviours of the reference list and the alias namespace of Components:
\* references are made by add_ref, add_array and add, with automatic and
\* caller-supplied aliases, towards any Component that exists (the code
\* tests only that the target is a Component), and removed.
Aliases == {NoName, "a"}

\* the reference object r is at the end of the references of c, which are
\* otherwise those of the current state
AppendedIn(h, c, r) == h.references[c] = Append(references[c], r)

\* the alias namespace of c maps the name of r, and no other alias, to r
RegisteredIn(h, c, r) ==
  {k \in DOMAIN h.named_references[c] : h.named_references[c][k] = r}
    = {h.refobj[r].name}

\* the references, the aliases and the alias counters of every Component
\* are those of the current state
RefsUnchangedIn(h) ==
  /\ \A x \in Components :
       /\ h.references[x] = references[x]
       /\ h.named_references[x] = named_references[x]
       /\ h.reference_names_counter[x] = reference_names_counter[x]

\* what a call that makes the reference object r in Component c leaves
Made(op, h, c, target, r) ==
  [op |-> op, c |-> c, target |-> target,
   ret |-> IF h.exc = "" THEN r ELSE 0,
   unchanged |-> RefsUnchangedIn(h),
   appended |-> h.exc = "" /\ AppendedIn(h, c, r),
   registered |-> h.exc = "" /\ RegisteredIn(h, c, r)]

BuildRef ==
  /\ n + Len(refobj) < MaxObjects
  /\ Construct

\* ref = c.add_ref(target, alias)
AddRefTo(c, target, alias) ==
  /\ n + Len(refobj) < MaxObjects
  /\ LET h == add_ref(Heap, c, target, alias, 0, 0)
     IN /\ Commit(h)
        /\ result' = Made("add_ref", h, c, target, Len(refobj) + 1)
  /\ UNCHANGED hist

\* ref = c.add_array(target, alias=alias)
AddArray(c, target, alias) ==
  /\ n + Len(refobj) < MaxObjects
  /\ LET h == add_array(Heap, c, target, alias)
     IN /\ Commit(h)
        /\ result' = Made("add_array", h, c, target, Len(refobj) + 1)
  /\ UNCHANGED hist

\* c.add(ComponentReference(target, name=nm))
AddElement(c, target, nm) ==
  /\ n + Len(refobj) < MaxObjects
  /\ LET h == add(NewReference(Heap, Reference(target, 0, 0, nm)), c, Len(refobj) + 1)
     IN /\ Commit(h)
        /\ result' = Made("add", h, c, target, Len(refobj) + 1)
  /\ UNCHANGED hist

NextRef ==
  \/ BuildRef
  \/ \E c \in Components : Lock(c)
  \/ \E c \in Components, target \in Components \cup {0}, alias \in Aliases :
        AddRefTo(c, target, alias)
  \/ \E c \in Components, target \in Components \cup {0}, alias \in Aliases :
        AddArray(c, target, alias)
  \/ \E c \in Components, target \in Components, nm \in Aliases :
        AddElement(c, target, nm)
  \/ \E c \in Components, r \in 1..Len(refobj) : RemoveRef(c, r)

SpecRef == Init /\ [][NextRef]_vars

\* ------------------------------------------------------------ normalizing
\* Behaviours of the normalizer: a hierarchy of Components is built with
\* references on and off the grid, at right and other angles, and then given
\* to flatten_offgrid_references_recursive, as _write_library does
\* (keep_names) and as a caller outside the export does.
Origins == {0, 1}
Rotations == {0, 45}
NormalizeOp == "flatten_offgrid_references_recursive"
Normalized == result.op = NormalizeOp

\* the Components of the hierarchy under top, top included
Hierarchy(h, top) == {top} \cup get_dependencies(h, top)

\* the invalid references owned by the Components of the hierarchy under top
InvalidRefs(h, top) ==
  {r \in 1..Len(h.refobj) :
     h.refobj[r].owner \in Hierarchy(h, top) /\ is_invalid_ref(h.refobj[r])}

\* the Components on the reference chains from top down to the owner of an
\* invalid reference, both ends included
Ancestors(h, top) ==
  {x \in Hierarchy(h, top) :
     \E r \in InvalidRefs(h, top) : h.refobj[r].owner \in Hierarchy(h, x)}

\* the names "new_component.rename" can give to a copy of the Component x
CloneNames(h, x) ==
  {h.name[x], h.name[x] \o "_offgrid"}
    \cup {Suffixed(h.name[x] \o "_offgrid", k) : k \in 1..NormCanvases}

\* the Components that h holds a copy of, made since the current state
Cloned(h) ==
  {x \in Components : \E y \in (n + 1)..h.n : h.name[y] \in CloneNames(h, x)}

BuildNorm ==
  /\ ~Normalized
  /\ n < NormCanvases
  /\ Construct

\* c.add_ref(target, origin=..., rotation=...)
Place(c, target, origin, rotation) ==
  /\ ~Normalized
  /\ Len(refobj) < NormRefs
  /\ target # c /\ c \notin get_dependencies(Heap, target)
  /\ LET h == add_ref(Heap, c, target, NoName, origin, rotation)
     IN /\ Commit(h)
        /\ result' = [op |-> "add_ref", c |-> c, changed |-> Changed(h)]
  /\ UNCHANGED hist

\* ret = flatten_offgrid_references_recursive(top, keep_names=...)
Normalize(top, keep_names) ==
  /\ ~Normalized
  /\ LET call == flatten_offgrid_references_recursive(
                   Heap, top, EmptyDict, {}, keep_names)
     IN /\ Commit(call.h)
        /\ result' = [op |-> NormalizeOp, c |-> top, ret |-> call.ret,
                      keep_names |-> keep_names, updated |-> call.updated,
                      changed |-> Changed(call.h),
                      invalid |-> InvalidRefs(Heap, top),
                      ancestors |-> Ancestors(Heap, top),
                      cloned |-> Cloned(call.h)]
  /\ UNCHANGED hist

NextNorm ==
  \/ BuildNorm
  \/ \E c \in Components, target \in Components, origin \in Origins,
        rotation \in Rotations : Place(c, target, origin, rotation)
  \/ \E top \in Components, keep_names \in BOOLEAN : Normalize(top, keep_names)

SpecNorm == Init /\ [][NextNorm]_vars

\* =================================================================== export
\* Behaviours of the export: Components are made, references are placed
\* among them (from a Component to one made after it, which numbers any
\* acyclic hierarchy), some are renamed without the cache (so that names can
\* collide), some of the referenced ones are locked, and the first is written with
\* _write_library under each setting of the duplicate-name and
\* uncached-component policies.  The steps come in that order, the
\* references, the renames and the locks in the order of the Components; the
\* Component written is the first one made, and every hierarchy can be
\* numbered so.
ExportNames == {"X"}
DuplicatePolicies == {"error", "warn", "overwrite", "None", "ignore"}
UncachedPolicies == {"warn", "error"}
WriteOp == "_write_library"
Exported == result.op = WriteOp

BuildExp ==
  /\ result.op \in {"init", "Component"}
  /\ n < ExpCanvases
  /\ Construct

\* c.rename(nm, cache=False)
RenameExp(c, nm) ==
  /\ result.op \in {"Component", "add_ref"} \/ (result.op = "rename" /\ result.c < c)
  /\ c = 1 \/ \E r \in 1..Len(refobj) : refobj[r].parent = c
  /\ Rename(c, nm, FALSE)

\* c.lock()
LockExp(c) ==
  /\ ~Exported
  /\ result.op = "lock" => result.c < c
  /\ \E r \in 1..Len(refobj) : refobj[r].parent = c
  /\ Lock(c)

\* c.add_ref(target, origin=...)
PlaceExp(c, target, origin) ==
  /\ ~Exported
  /\ result.op = "Component" \/ (result.op = "add_ref" /\ result.c <= c)
  /\ Len(refobj) < ExpRefs
  /\ c < target
  /\ LET h == add_ref(Heap, c, target, NoName, origin, 0)
     IN /\ Commit(h)
        /\ result' = [op |-> "add_ref", c |-> c, changed |-> Changed(h)]
  /\ UNCHANGED hist

\* top.write_gds() with the given write settings
Export(top, write_settings) ==
  /\ ~Exported
  /\ LET call == _write_library(Heap, top, write_settings)
     IN /\ Commit(call.h)
        /\ result' = [op |-> WriteOp, c |-> top, top_cell |-> call.top_cell,
                      names |-> call.names, write_settings |-> write_settings]
  /\ UNCHANGED hist

NextExp ==
  \/ BuildExp
  \/ \E c \in Components, nm \in ExportNames : RenameExp(c, nm)
  \/ \E c \in Components : LockExp(c)
  \/ \E c \in Components, target \in Components, origin \in Origins :
       PlaceExp(c, target, origin)
  \/ \E top \in Components \cap {1}, d \in DuplicatePolicies,
        u \in UncachedPolicies, f \in BOOLEAN :
       Export(top, [on_duplicate_cell |-> d, on_uncached_component |-> u,
                    flatten_offgrid_references |-> f])

\* no call of these behaviours is made on a locked Component, so
\* CONF.raise_error_on_mutation makes no difference and is left unset
InitUnraised == Init /\ ~raise_error_on_mutation

SpecExp == InitUnraised /\ [][NextExp]_vars

\* ===================================================================== hash
\* Behaviours of hash_geometry: Components are made, polygons are added to
\* them on either layer in any order, and the geometry of one is hashed.
Points == {1, 2}
Precisions == {1, 3}
HashOp == "hash_geometry"

BuildHash ==
  /\ n < HashCanvases
  /\ Construct

\* c.add_polygon(points, layer=layer)
PutPolygon(c, layer, points) ==
  /\ SumLen(polygons, n) < HashPolys
  /\ LET h == add_polygon(Heap, c, "array2", [kind |-> "layer", layer |-> layer],
                          layer, <<points>>)
     IN /\ Commit(h)
        /\ result' = [op |-> "add_polygon", c |-> c]
  /\ UNCHANGED hist

\* digest = c.hash_geometry(precision)
HashGeometry(c, precision) ==
  /\ Commit(Heap)
  /\ result' = [op |-> HashOp, c |-> c, precision |-> precision,
                digest |-> hash_geometry(Heap, c, precision)]
  /\ UNCHANGED hist

NextHash ==
  \/ BuildHash
  \/ \E c \in Components, layer \in Layers, points \in Points :
       PutPolygon(c, layer, points)
  \/ \E c \in Components, precision \in Precisions : HashGeometry(c, precision)

SpecHash == Init /\ [][NextHash]_vars

\* ==================================================================== ports
\* Behaviours of get_ports: Components are made, each is given a port or
\* not, references are placed among them (from a Component to one made after
\* it) at either origin and turned or not, and the ports of one are
\* collected down to a depth.
Centers == {<<10, 0>>}
Orientations == {0, 270}
Turns == {0, 90}
Depths == {0, 1, None}
GetPortsOp == "get_ports"

BuildPorts ==
  /\ result.op \in {"init", "Component"}
  /\ n < PortCanvases
  /\ Construct

\* c.add_port(nm, center=center, orientation=orientation)
AddPortAt(c, nm, center, orientation) ==
  /\ result.op \in {"Component", "add_port"}
  /\ nm \notin DOMAIN ports[c]
  /\ Commit(add_port(Heap, c, nm, PortAt(nm, center, orientation)))
  /\ result' = [op |-> "add_port", c |-> c]
  /\ UNCHANGED hist

\* c.add_ref(target, origin=..., rotation=...)
PlaceTurned(c, target, origin, rotation) ==
  /\ result.op \in {"Component", "add_port", "add_ref"}
  /\ Len(refobj) < PortRefs
  /\ c < target
  /\ Commit(add_ref(Heap, c, target, NoName, origin, rotation))
  /\ result' = [op |-> "add_ref", c |-> c]
  /\ UNCHANGED hist

\* port_list = c.get_ports(depth)
GetPorts(c, depth) ==
  /\ result.op # GetPortsOp
  /\ Commit(Heap)
  /\ result' = [op |-> GetPortsOp, c |-> c, depth |-> depth,
                port_list |-> get_ports(Heap, c, depth)]
  /\ UNCHANGED hist

NextPorts ==
  \/ BuildPorts
  \/ \E c \in Components, nm \in PortNames, center \in Centers,
        orientation \in Orientations : AddPortAt(c, nm, center, orientation)
  \/ \E c \in Components, target \in Components, origin \in Origins,
        rotation \in Turns : PlaceTurned(c, target, origin, rotation)
  \/ \E c \in Components, depth \in Depths : GetPorts(c, depth)

SpecPorts == Init /\ [][NextPorts]_vars

\* ================================================================== copying
\* Behaviours of copy: Components are built and given polygons, ports and
\* references (to a Component made after them, under an automatic alias at
\* the origin or under a supplied alias off it), some are locked, one is
\* copied, and then a port or a reference is added to or removed from the
\* copy.
RefKinds == {[alias |-> NoName, origin |-> 0], [alias |-> "a", origin |-> 1]}

\* a copy has been made
Copied == n > CopyCanvases

\* the last call was made while the Components were being filled
Filling == ~Copied /\ result.op \in {"Component", "add_polygon", "add_port", "add_ref"}

BuildCopy ==
  /\ n < CopyCanvases
  /\ result.op \in {"init", "Component"}
  /\ Construct

\* c.add_polygon(points, layer)
PutPolygonOn(c, layer) ==
  /\ Filling
  /\ Items(Heap) < CopyItems
  /\ LET h == add_polygon(Heap, c, "array2", [kind |-> "layer", layer |-> layer],
                          layer, <<1>>)
     IN /\ Commit(h)
        /\ result' = [op |-> "add_polygon", c |-> c, changed |-> Changed(h)]
  /\ UNCHANGED hist

\* c.add_port(nm, ...)
PutPortOn(c, nm) ==
  /\ (Filling /\ Items(Heap) < CopyItems) \/ (result.op = "copy" /\ c = result.c)
  /\ LET h == add_port(Heap, c, nm, Port(nm, 0))
     IN /\ Commit(h)
        /\ result' = [op |-> "add_port", c |-> c, changed |-> Changed(h)]
  /\ UNCHANGED hist

\* c.add_ref(target, alias, origin=...)
PutRefOn(c, target, alias, origin) ==
  /\ \/ Filling /\ Items(Heap) < CopyItems /\ c < target
     \/ result.op = "copy" /\ c = result.c
  /\ LET h == add_ref(Heap, c, target, alias, origin, 0)
     IN /\ Commit(h)
        /\ result' = [op |-> "add_ref", c |-> c, changed |-> Changed(h)]
  /\ UNCHANGED hist

\* c.lock()
LockFilled(c) ==
  /\ ~Copied
  /\ result.op = "lock" => result.c < c
  /\ Lock(c)

\* c2 = c.copy(nm)
CopyContent(c, nm) ==
  /\ n = CopyCanvases
  /\ Commit(Component_copy(Heap, c, nm))
  /\ result' = [op |-> "copy", src |-> c, c |-> n + 1]
  /\ UNCHANGED hist

\* c.remove(c.ports[key])
DropPort(c, key) ==
  /\ result.op = "copy" /\ c = result.c
  /\ RemovePort(c, key)

\* c.remove(ref)
DropRef(c, r) ==
  /\ result.op = "copy" /\ c = result.c
  /\ RemoveRef(c, r)

NextCopy ==
  \/ BuildCopy
  \/ \E c \in Components : LockFilled(c)
  \/ \E c \in Components : PutPolygonOn(c, 1)
  \/ \E c \in Components, nm \in PortNames : PutPortOn(c, nm)
  \/ \E c \in Components, target \in Components, kind \in RefKinds :
       PutRefOn(c, target, kind.alias, kind.origin)
  \/ \E c \in Components, nm \in {NoName, "X"} : CopyContent(c, nm)
  \/ \E c \in Components, key \in PortNames : DropPort(c, key)
  \/ \E c \in Components, r \in 1..Len(refobj) : DropRef(c, r)

SpecCopy == Init /\ [][NextCopy]_vars

\* =============================================================== flattening
\* Behaviours of flatten: Components are made, references are placed among
\* them (from a Component to one made after it), polygons and ports are
\* added, and then the first Component, locked or not, is flattened, or
\* flattened and the result flattened again (every hierarchy can be numbered
\* so that its top is the first).  The steps come in that order, each kind
\* in the order of the Components.
FlattenOp == "flatten"
FlattenTwiceOp == "flatten.flatten"
Flattened == result.op \in {FlattenOp, FlattenTwiceOp}

\* the last call was op, made on a Component before c or on c itself
UpTo(op, c) == result.op = op /\ result.c <= c

BuildFlat ==
  /\ n < FlatCanvases
  /\ result.op \in {"init", "Component"}
  /\ Construct

\* c.add_ref(target)
PlaceFlat(c, target) ==
  /\ result.op = "Component" \/ UpTo("add_ref", c)
  /\ Items(Heap) < FlatItems
  /\ c < target
  /\ Commit(add_ref(Heap, c, target, NoName, 0, 0))
  /\ result' = [op |-> "add_ref", c |-> c]
  /\ UNCHANGED hist

\* c.add_polygon(points, layer)
FillPolygon(c, layer) ==
  /\ result.op \in {"Component", "add_ref"} \/ UpTo("add_polygon", c)
  /\ Items(Heap) < FlatItems
  /\ Commit(add_polygon(Heap, c, "array2", [kind |-> "layer", layer |-> layer],
                        layer, <<1>>))
  /\ result' = [op |-> "add_polygon", c |-> c]
  /\ UNCHANGED hist

\* c.add_port(nm, ...)
FillPort(c, nm) ==
  /\ result.op \in {"Component", "add_ref", "add_polygon"} \/ UpTo("add_port", c)
  /\ Items(Heap) < FlatItems
  /\ nm \notin DOMAIN ports[c]
  /\ Commit(add_port(Heap, c, nm, Port(nm, 0)))
  /\ result' = [op |-> "add_port", c |-> c]
  /\ UNCHANGED hist

\* c.lock()
LockFlat(c) ==
  /\ ~Flattened
  /\ ~locked[c]
  /\ Lock(c)

\* ret = c.flatten()
Flatten(c) ==
  /\ ~Flattened
  /\ Commit(flatten(Heap, c))
  /\ result' = [op |-> FlattenOp, c |-> c, ret |-> n + 1]
  /\ UNCHANGED hist

\* first = c.flatten(); ret = first.flatten()
FlattenTwice(c) ==
  /\ ~Flattened
  /\ LET Again(first) == flatten(first, first.n)
     IN Commit(Again(flatten(Heap, c)))
  /\ result' = [op |-> FlattenTwiceOp, c |-> c, first |-> n + 1, ret |-> n + 2]
  /\ UNCHANGED hist

NextFlat ==
  \/ BuildFlat
  \/ \E c \in Components, target \in Components : PlaceFlat(c, target)
  \/ \E c \in Components, layer \in Layers : FillPolygon(c, layer)
  \/ \E c \in Components, nm \in PortNames : FillPort(c, nm)
  \/ \E c \in Components \cap {1} : LockFlat(c)
  \/ \E c \in Components \cap {1} : Flatten(c)
  \/ \E c \in Components \cap {1} : FlattenTwice(c)

SpecFlat == InitUnraised /\ [][NextFlat]_vars

\* =============================================================== extracting
\* Behaviours of extract: Components are made, references are placed among
\* them (from a Component to one made after it), polygons of positive and of
\* zero area and ports are added, the first Component is locked or not, and
\* layers are extracted from it, through the references or not.  The steps
\* come in that order, each kind in the order of the Components.
ExtractOp == "extract"
LayerSets == {{1}, {1, 2}}
Extracted == result.op = ExtractOp

BuildExt ==
  /\ n < ExtCanvases
  /\ result.op \in {"init", "Component"}
  /\ Construct

\* c.add_ref(target)
PlaceExt(c, target) ==
  /\ result.op = "Component" \/ UpTo("add_ref", c)
  /\ Items(Heap) < ExtItems
  /\ c < target
  /\ Commit(add_ref(Heap, c, target, NoName, 0, 0))
  /\ result' = [op |-> "add_ref", c |-> c]
  /\ UNCHANGED hist

\* c.add_polygon(shapely_polygon, layer): the polygon is added whatever
\* its area
FillShape(c, layer, area) ==
  /\ result.op \in {"Component", "add_ref"} \/ UpTo("add_polygon", c)
  /\ Items(Heap) < ExtItems
  /\ Commit(add_polygon(Heap, c, "shapely", [kind |-> "layer", layer |-> layer],
                        layer, <<area>>))
  /\ result' = [op |-> "add_polygon", c |-> c]
  /\ UNCHANGED hist

\* c.add_port(nm, ...)
FillPortExt(c, nm) ==
  /\ result.op \in {"Component", "add_ref", "add_polygon"}
  /\ Items(Heap) < ExtItems
  /\ nm \notin DOMAIN ports[c]
  /\ Commit(add_port(Heap, c, nm, Port(nm, 0)))
  /\ result' = [op |-> "add_port", c |-> c]
  /\ UNCHANGED hist

\* c.lock()
LockExt(c) ==
  /\ ~Extracted
  /\ ~locked[c]
  /\ Lock(c)

\* ret = c.extract(layers, recursive=recursive)
Extract(c, layers, recursive) ==
  /\ ~Extracted
  /\ LET call == extract(Heap, c, layers, recursive)
     IN /\ Commit(call.h)
        /\ result' = [op |-> ExtractOp, c |-> c, layers |-> layers,
                      recursive |-> recursive, ret |-> call.ret]
  /\ UNCHANGED hist

NextExt ==
  \/ BuildExt
  \/ \E c \in Components, target \in Components : PlaceExt(c, target)
  \/ \E c \in Components, layer \in Layers, area \in {0, 1} : FillShape(c, layer, area)
  \/ \E c \in Components \cap {1}, nm \in PortNames : FillPortExt(c, nm)
  \/ \E c \in Components \cap {1} : LockExt(c)
  \/ \E c \in Components \cap {1}, layers \in LayerSets, recursive \in BOOLEAN :
       Extract(c, layers, recursive)

SpecExt == Init /\ [][NextExt]_vars

\* ================================================================= aliasing
\* Behaviours of the automatic aliases: Components are made, references are
\* added with no alias and with a supplied alias of the form the automatic
\* ones have, references are removed, and Components are copied.
AliasCounts == {1}

BuildAlias ==
  /\ n < AliasCanvases
  /\ Construct

\* ref = c.add_ref(target, alias=alias); alias is NoName when none is given
AddAliased(c, target, alias) ==
  /\ target # c
  /\ LET h == add_ref(Heap, c, target, alias, 0, 0)
     IN /\ h.n + Len(h.refobj) <= AliasObjects
        /\ Commit(h)
        /\ result' = [op |-> "add_ref", c |-> c, target |-> target,
                      auto |-> alias = NoName, ret |-> Len(refobj) + 1]
  /\ UNCHANGED hist

\* c2 = c.copy()
CopyAliases(c) ==
  /\ n = AliasCanvases
  /\ LET h == Component_copy(Heap, c, NoName)
     IN /\ h.n + Len(h.refobj) <= AliasObjects
        /\ Commit(h)
        /\ result' = [op |-> "copy", src |-> c, c |-> n + 1]
  /\ UNCHANGED hist

NextAlias ==
  \/ BuildAlias
  \/ \E c \in Components, target \in Components : AddAliased(c, target, NoName)
  \/ \E c \in Components, target \in Components, k \in AliasCounts :
       AddAliased(c, target, Alias(name[target], k))
  \/ \E c \in Components, r \in 1..Len(refobj) : RemoveRef(c, r)
  \/ \E c \in Components : CopyAliases(c)

SpecAlias == InitUnraised /\ [][NextAlias]_vars

\* ================================================================ ownership
\* Behaviours of the ownership of references: Components are made,
\* references are made by add_ref (towards a Component made after the
\* owner), reference objects that exist are added with add to any Component
\* made before their target, and references are removed, absorbed and
\* flattened.
BuildOwn ==
  /\ n < OwnCanvases
  /\ result.op \in {"init", "Component"}
  /\ Construct

\* ref = c.add_ref(target)
AddRefOwn(c, target) ==
  /\ n + Len(refobj) < OwnObjects
  /\ c < target
  /\ Commit(add_ref(Heap, c, target, NoName, 0, 0))
  /\ result' = [op |-> "add_ref", c |-> c, ref |-> Len(refobj) + 1]
  /\ UNCHANGED hist

\* c.add(ref), ref a reference object that exists
AddExisting(c, r) ==
  /\ c < refobj[r].parent
  /\ Len(references[c]) < OwnObjects - OwnCanvases
  /\ Commit(add(Heap, c, r))
  /\ result' = [op |-> "add", c |-> c, ref |-> r]
  /\ UNCHANGED hist

\* c.remove(ref)
RemoveOwn(c, r) ==
  /\ Commit(remove_reference(Heap, c, r))
  /\ result' = [op |-> "remove", c |-> c, ref |-> r]
  /\ UNCHANGED hist

\* c.absorb(ref)
Absorb(c, r) ==
  /\ Commit(absorb(Heap, c, r))
  /\ result' = [op |-> "absorb", c |-> c, ref |-> r]
  /\ UNCHANGED hist

\* c.flatten_reference(ref)
FlattenReference(c, r) ==
  /\ n + Len(refobj) + 1 < OwnObjects
  /\ Commit(flatten_reference(Heap, c, r))
  /\ result' = [op |-> "flatten_reference", c |-> c, ref |-> r]
  /\ UNCHANGED hist

NextOwn ==
  \/ BuildOwn
  \/ \E c \in Components, target \in Components : AddRefOwn(c, target)
  \/ \E c \in Components, r \in 1..Len(refobj) : AddExisting(c, r)
  \/ \E c \in Components, r \in 1..Len(refobj) : RemoveOwn(c, r)
  \/ \E c \in Components, r \in 1..Len(refobj) : Absorb(c, r)
  \/ \E c \in Components, r \in 1..Len(refobj) : FlattenReference(c, r)

SpecOwn == InitUnraised /\ [][NextOwn]_vars

\* ================================================================ ports map
\* Behaviours of the ports map: Components are made, callers make Port
\* objects, and ports are added by keyword, from a Port object with or
\* without a new name, and from the ports of another Component, and removed.
MapNames == {"o1", "o2"}

BuildMap ==
  /\ n < MapCanvases
  /\ Construct

\* port = Port(name=nm, ...), made by the caller
MakePort(nm) ==
  /\ Len(portobj) < MapPortObjects
  /\ Commit([Heap EXCEPT !.portobj = Append(@, Port(nm, 0))])
  /\ result' = [op |-> "Port", port |-> Len(portobj) + 1]
  /\ UNCHANGED hist

\* c.add_port(name=nm, center=..., orientation=...)
AddPortNamed(c, nm) ==
  /\ Commit(add_port(Heap, c, nm, Port(nm, 0)))
  /\ result' = [op |-> "add_port", c |-> c, key |-> nm, port |-> 0]
  /\ UNCHANGED hist

\* c.add_port(name=nm, port=port), nm left at None or given
AddPortOf(c, nm, port) ==
  /\ Len(portobj) < MapPortObjects
  /\ Commit(add_port_of(Heap, c, nm, port))
  /\ result' = [op |-> "add_port", c |-> c, port |-> port,
                key |-> IF nm = NoName THEN portobj[port].name ELSE nm]
  /\ UNCHANGED hist

\* c.add_ports(src.ports)
AddPortsOf(c, src) ==
  /\ ports[src] # EmptyDict
  /\ Commit(add_ports(Heap, c, ports[src], DOMAIN ports[src]))
  /\ result' = [op |-> "add_ports", c |-> c, src |-> src]
  /\ UNCHANGED hist

NextMap ==
  \/ BuildMap
  \/ \E nm \in MapNames : MakePort(nm)
  \/ \E c \in Components, nm \in MapNames : AddPortNamed(c, nm)
  \/ \E c \in Components, nm \in MapNames \cup {NoName}, port \in 1..Len(portobj) :
       AddPortOf(c, nm, port)
  \/ \E c \in Components, src \in Components : AddPortsOf(c, src)
  \/ \E c \in Components, key \in MapNames : RemovePort(c, key)

SpecMap == Init /\ [][NextMap]_vars

\* ---------------------------------------------------------- naming claims
Created(X) == Get(hist.created, X, 0)
Renamed(X) == Get(hist.renamed, X, 0)
CounterName(X, count) == IF count >= 2 THEN Suffixed(X, count - 1) ELSE X

\* C5 as stated: the k-th Component created with the requested name X is
\* named X$(k-1) (X itself for k = 1), and the counter of X is the number of
\* Components created with X or renamed to X.
C5_KthCreatedIsSuffixedKMinus1 ==
  result.op = "Component" =>
    /\ name[result.c] = CounterName(result.requested, Created(result.requested))
    /\ name_counters[result.requested]
         = Created(result.requested) + Renamed(result.requested)

\* C5 amended: a Component created with the requested name X is named
\* X$(count-1), count being the counter of X after the creation (X itself when
\* count = 1); the counter of every name is the number of Components created
\* with it plus the number of caching renames to it of a Component that did
\* not bear it; so with no such rename to X the k-th Component created with X
\* is named X$(k-1).
C5_CreatedIsSuffixedByCounter ==
  /\ \A X \in DOMAIN name_counters : name_counters[X] = Created(X) + Renamed(X)
  /\ result.op = "Component" =>
       /\ name[result.c]
            = CounterName(result.requested, name_counters[result.requested])
       /\ Renamed(result.requested) = 0 =>
            name[result.c] = CounterName(result.requested, Created(result.requested))

\* C5 witness: with no rename to X, the second Component created with X is X$1
C5_SecondCreatedIsX1 ==
  /\ result.op = "Component"
  /\ result.requested = "X"
  /\ Created("X") = 2
  /\ Renamed("X") = 0
  /\ name[result.c] = "X$1"

\* C6: with caching enabled (no rename(cache=False) was made), no two
\* distinct Components have the same name.
C6_NamesAreUnique ==
  ~hist.uncached =>
    \A c1, c2 \in Components : c1 # c2 => name[c1] # name[c2]

\* C7: no step replaces the CACHE entry of a name by a different Component.
C7_NoCacheEntryReplaced ==
  [][\A k \in DOMAIN CACHE : k \in DOMAIN CACHE' => CACHE'[k] = CACHE[k]]_vars

\* C8: every Component held in the CACHE is locked.
C8_CachedAreLocked == \A k \in DOMAIN CACHE : locked[CACHE[k]]

\* C9 as stated: once locked, a Component stays locked in every later state.
C9_LockIsIrreversible ==
  [][\A c \in Components : locked[c] => locked'[c]]_vars

\* C9 amended: a locked Component stays locked under every call except its
\* own unlock(), which warns; copy() leaves the lock of the source as it was
\* and returns a different, unlocked Component.
C9_OnlyUnlockClearsTheLock ==
  [][/\ \A c \in Components :
          locked[c] /\ ~locked'[c] =>
            result'.op = "unlock" /\ result'.c = c /\ warned'
     /\ result'.op = "copy" /\ exc' = "" =>
          /\ result'.c \notin Components
          /\ ~locked'[result'.c]
          /\ locked'[result'.src] = locked[result'.src]]_vars

\* C9 witness: a locked Component was copied; it is still locked, the copy is not
C9_LockedSourceCopied ==
  /\ result.op = "copy"
  /\ locked[result.src]
  /\ ~locked[result.c]

\* -------------------------------------------------------- mutation claims
\* the last call was made on a Component that is locked (no call of these
\* behaviours clears a lock, so it was locked when the call began)
OnLocked(op) == result.op = op /\ locked[result.c]

C4_LockedPortsAndRemovalsAreDeclared ==
  (OnLocked("add_port") \/ OnLocked("remove")) =>
    (result.c \in result.changed => ~raise_error_on_mutation /\ warned)

\* C10: remap_layers returns a Component other than the original, and
\* changes no polygon of the original nor of any Component that existed
\* before the call.
C10_RemapLayersLeavesOriginalsAlone ==
  result.op = "remap_layers" =>
    result.ret # result.c /\ result.changed = {}

\* ------------------------------------------------------ normalizer claims
\* the Components of the hierarchy the normalizer returned
Returned == Hierarchy(Heap, result.ret)

\* C1: after flatten_offgrid_references_recursive(top) the returned
\* Component and every Component reachable from it through references hold
\* only valid references, whatever the depth of an invalid reference.
C1_ReturnedHierarchyIsValid ==
  Normalized =>
    \A x \in Returned : \A r \in SeqToSet(references[x]) : ~is_invalid_ref(refobj[r])

\* C2: when exactly one reference of the hierarchy is invalid, the normalizer
\* copies exactly the Components on the chains from the top down to the owner
\* of that reference, the hierarchy it returns holds the copies in place of
\* those Components, and no Component that existed before is changed.
C2_ExactlyTheChainIsCloned ==
  (Normalized /\ Cardinality(result.invalid) = 1) =>
    /\ result.cloned = result.ancestors
    /\ Returned \cap result.ancestors = {}
    /\ result.changed = {}

\* ------------------------------------------------------- reference claims
MakesReference == result.op \in {"add_ref", "add_array"}

ListedAliases(c) == {refobj[references[c][i]].name : i \in 1..Len(references[c])}

\* C12: in every Component the listed references have pairwise distinct
\* aliases, and the alias namespace maps each alias to the listed reference
\* that carries it: its keys are the aliases of the listed references.
C12_AliasesAreUnique ==
  \A c \in Components :
    /\ \A i, j \in 1..Len(references[c]) :
         i # j => refobj[references[c][i]].name # refobj[references[c][j]].name
    /\ DOMAIN named_references[c] = ListedAliases(c)
    /\ \A i \in 1..Len(references[c]) :
         named_references[c][refobj[references[c][i]].name] = references[c][i]

\* the Components the references of x point at
Targets(x) == {refobj[r].parent : r \in SeqToSet(references[x])}

\* the Components reached from those of S along at most k references
RECURSIVE ReachWithin(_, _)
ReachWithin(S, k) ==
  IF k = 0 THEN S ELSE ReachWithin(S \cup UNION {Targets(x) : x \in S}, k - 1)

\* C13: the reference graph is acyclic: no Component references itself or a
\* Component from which it is reachable.
C13_ReferenceGraphIsAcyclic ==
  \A c \in Components : c \notin ReachWithin(Targets(c), n)

\* ------------------------------------------------------------ export claims
\* the Components whose names _write_library compares: the dependencies of
\* the top cell it writes
ExportClosure == get_dependencies(Heap, result.top_cell)

\* the names that two distinct Components of the export closure share
SharedNames ==
  {name[x] : x \in {y \in ExportClosure :
                      \E z \in ExportClosure : z # y /\ name[z] = name[y]}}

ErrorPolicy == Exported /\ result.write_settings.on_duplicate_cell = "error"
DuplicateError == exc = "ValueError: Duplicated cell names"
NothingWritten == files = EmptyDict /\ last_saved_files = <<>>

CollapsePolicy ==
  Exported /\ result.write_settings.on_duplicate_cell \in {"warn", "overwrite"}

\* C15: under the "warn" and "overwrite" duplicate-name policies the library
\* written holds exactly one cell per name: no two distinct cells of it
\* carry the same name, so every reference of it points at the one cell of
\* its target's name.
C15_OneCellPerName ==
  CollapsePolicy =>
    \A path \in DOMAIN files :
      \A x \in DOMAIN files[path], y \in DOMAIN files[path] :
        files[path][x].name = files[path][y].name => x = y

\* --------------------------------------------------------------- hash claim
\* how many polygons with the given points the Component x holds on a layer
PolygonCount(x, layer, points) ==
  Cardinality({i \in 1..Len(AllPolygons(Heap, x)) :
                 AllPolygons(Heap, x)[i] = Polygon(layer, points)})

\* x and y hold the same multiset of polygons on every layer
SameGeometry(x, y) ==
  \A layer \in Layers, points \in Points :
    PolygonCount(x, layer, points) = PolygonCount(y, layer, points)

\* C16: hash_geometry is order-independent: for a fixed precision, a
\* Component that holds the same multiset of polygons per layer as the one
\* just hashed has the same digest, whatever the order in which its polygons
\* were inserted and its layers first used.
C16_DigestIsOrderIndependent ==
  result.op = HashOp =>
    \A y \in Components :
      SameGeometry(result.c, y) =>
        hash_geometry(Heap, y, result.precision) = result.digest

\* -------------------------------------------------------------- ports claim
\* a port of a referenced Component in the frame of the owner of the
\* reference r: reflected, rotated, translated, center and orientation
Projected(port, r) ==
  LET new == _transform_port(port.center, port.orientation,
                             r.origin, r.rotation, FALSE)
  IN PortAt(port.name, new.center, new.orientation)

\* the ports of c and, down to the depth, of its references, each projected
\* through every reference on its way up to c
RECURSIVE ProjectedPorts(_, _)
ProjectedPorts(c, depth) ==
  LET own == {PortAt(ports[c][k].name, ports[c][k].center, ports[c][k].orientation) :
                k \in DOMAIN ports[c]}
      below(r) ==
        {Projected(p, r) :
           p \in ProjectedPorts(r.parent, IF depth = None THEN None ELSE depth - 1)}
  IN IF depth = None \/ depth > 0
     THEN own \cup UNION {below(refobj[i]) : i \in SeqToSet(references[c])}
     ELSE own

\* C17: the ports get_ports returns are the ports of the Component and, for
\* depth >= 1, those of its references projected to its frame, center and
\* orientation, by reflect, rotate, translate (orientation mod 360), through
\* every reference on the way when references are nested; a port at
\* <<10, 0>> with orientation 0 under rotation 90 and origin 0 comes out at
\* <<0, 10>> with orientation 90.
C17_PortsAreProjected ==
  result.op = GetPortsOp =>
    {PortAt(p.name, p.center, p.orientation) : p \in result.port_list}
      = ProjectedPorts(result.c, result.depth)

\* --------------------------------------------------------------- copy claim
\* the Component x and the reference objects are in the next state what
\* they are in this one
Untouched(x) ==
  /\ name'[x] = name[x]
  /\ locked'[x] = locked[x]
  /\ polygons'[x] = polygons[x]
  /\ ports'[x] = ports[x]
  /\ references'[x] = references[x]
  /\ named_references'[x] = named_references[x]
  /\ \A i \in 1..Len(references[x]) :
       refobj'[references[x][i]] = refobj[references[x][i]]

\* the i-th reference of the copy c is a new object with the target, the
\* transform and the alias of the i-th reference of the source s
SameReference(c, s, i) ==
  LET new == refobj'[references'[c][i]]
      old == refobj[references[s][i]]
  IN /\ references'[c][i] \notin 1..Len(refobj)
     /\ new.owner = c
     /\ new.parent = old.parent
     /\ new.origin = old.origin
     /\ new.rotation = old.rotation
     /\ new.name = old.name
     /\ named_references'[c][new.name] \in SeqToSet(references'[c])

\* C18: copy() succeeds and returns a new, unlocked Component (also when the
\* source is locked) whose references have, in the same order, the targets,
\* transforms and aliases of the source's and whose ports have the same
\* names; the source and every other Component keep their name, lock,
\* polygons, ports and references; and adding or removing a port or a
\* reference on a Component (a copy included) changes no other Component.
C18_CopyIsIndependent ==
  [][/\ result'.op = "copy" =>
          /\ exc' = ""
          /\ result'.c = n + 1 /\ n' = n + 1
          /\ ~locked'[result'.c]
          /\ Len(references'[result'.c]) = Len(references[result'.src])
          /\ \A i \in 1..Len(references[result'.src]) :
               SameReference(result'.c, result'.src, i)
          /\ DOMAIN ports'[result'.c] = DOMAIN ports[result'.src]
          /\ \A x \in Components : Untouched(x)
     /\ result'.op \in {"add_port", "add_ref", "remove"} =>
          \A x \in Components \ {result'.c} :
            /\ polygons'[x] = polygons[x]
            /\ ports'[x] = ports[x]
            /\ references'[x] = references[x]
            /\ named_references'[x] = named_references[x]]_vars

\* C18 witness: a locked Component with a port and a reference placed off
\* the origin was copied; the copy is unlocked and has the port and a
\* reference of its own to the same target at the same origin
C18_LockedSourceWithContentCopied ==
  /\ result.op = "copy"
  /\ exc = ""
  /\ locked[result.src]
  /\ ~locked[result.c]
  /\ DOMAIN ports[result.src] # {}
  /\ DOMAIN ports[result.c] = DOMAIN ports[result.src]
  /\ Len(references[result.src]) = 1
  /\ Len(references[result.c]) = 1
  /\ references[result.c][1] # references[result.src][1]
  /\ refobj[references[result.src][1]].origin = 1
  /\ refobj[references[result.c][1]].origin = 1
  /\ refobj[references[result.c][1]].parent = refobj[references[result.src][1]].parent

\* ----------------------------------------------------------- flatten claims
\* C19: flatten() succeeds and returns a new Component that has no
\* references and a port for every port name of the source, and leaves the
\* source and every other Component (name, lock, polygons, ports,
\* references) as they were, whatever the depth of the references of the
\* source.
C19_FlattenReturnsFlatCopy ==
  [][result'.op = FlattenOp =>
       /\ exc' = ""
       /\ result'.ret = n + 1 /\ n' = n + 1
       /\ references'[result'.ret] = <<>>
       /\ named_references'[result'.ret] = EmptyDict
       /\ DOMAIN ports'[result'.ret] = DOMAIN ports[result'.c]
       /\ \A x \in Components : Untouched(x)]_vars

\* C19 witness: a locked Component with a port and references two levels
\* deep was flattened; the result has the polygons from below, the port and
\* no reference, and the source still has its reference and its lock
C19_NestedSourceFlattened ==
  /\ result.op = FlattenOp
  /\ exc = ""
  /\ locked[result.c]
  /\ DOMAIN ports[result.c] # {}
  /\ \E i \in 1..Len(references[result.c]) :
       references[refobj[references[result.c][i]].parent] # <<>>
  /\ polygons[result.c] = <<>>
  /\ polygons[result.ret] # <<>>
  /\ references[result.ret] = <<>>
  /\ DOMAIN ports[result.ret] = DOMAIN ports[result.c]

\* the geometry-by-layer content of a Component: how many polygons of each
\* shape it holds, itself and through its references, on each layer
GeometryByLayer(x) ==
  [layer \in Layers |->
     [points \in {0, 1} |->
        Cardinality({i \in 1..Len(AllPolygons(Heap, x)) :
                       AllPolygons(Heap, x)[i] = Polygon(layer, points)})]]

\* C20: flatten is idempotent on geometry: flatten(flatten(C)) has the
\* geometry-by-layer content of flatten(C), and neither has a reference.
C20_FlattenIsIdempotent ==
  result.op = FlattenTwiceOp =>
    /\ exc = ""
    /\ GeometryByLayer(result.ret) = GeometryByLayer(result.first)
    /\ references[result.first] = <<>>
    /\ references[result.ret] = <<>>

\* C20 witness: a Component with polygons of its own and polygons below a
\* reference was flattened twice; both results hold all of them and no
\* reference
C20_HierarchyFlattenedTwice ==
  /\ result.op = FlattenTwiceOp
  /\ exc = ""
  /\ polygons[result.c] # <<>>
  /\ references[result.c] # <<>>
  /\ Len(polygons[result.first]) > Len(polygons[result.c])
  /\ polygons[result.ret] = polygons[result.first]
  /\ references[result.first] = <<>>
  /\ references[result.ret] = <<>>

\* ---------------------------------------------------------- ports map claim
\* C21: add_port fails exactly when the resulting port name is already a key
\* of the ports map of the Component, and then leaves every ports map as it
\* was; otherwise it adds one entry under that name and changes no other;
\* the Port object supplied is never modified (a copy of it is stored); and
\* after every add_port, add_ports and remove each key of a ports map is the
\* name of the port it maps to.
C21_AddPortRefusesTakenNames ==
  [][/\ result'.op = "add_port" =>
          /\ exc' # "" <=> result'.key \in DOMAIN ports[result'.c]
          /\ exc' # "" => ports' = ports
          /\ exc' = "" =>
               /\ DOMAIN ports'[result'.c] = DOMAIN ports[result'.c] \cup {result'.key}
               /\ \A k \in DOMAIN ports[result'.c] :
                    ports'[result'.c][k] = ports[result'.c][k]
               /\ \A x \in Components \ {result'.c} : ports'[x] = ports[x]
          /\ \A i \in 1..Len(portobj) : portobj'[i] = portobj[i]
     /\ \A x \in 1..n' : \A k \in DOMAIN ports'[x] : ports'[x][k].name = k]_vars

\* C21 witness: a Port object named otherwise was added under a name the
\* Component already has; the call was refused, the port of that name is the
\* one that was there and the object supplied still has its own name
C21_RenamedPortRefused ==
  /\ result.op = "add_port"
  /\ exc = "ValueError"
  /\ result.port # 0
  /\ result.key \in DOMAIN ports[result.c]
  /\ portobj[result.port].name # result.key

\* ------------------------------------------------------------- remove claim
\* C22: remove(ref) of a reference listed in a Component succeeds and
\* releases its alias: the reference is no longer listed, its alias is no
\* longer a key of the alias namespace, and every other reference and the
\* alias entry of every other reference of the Component are as they were.
C22_RemoveReleasesAlias ==
  [][result'.op = "remove" =>
       \A r \in SeqToSet(references[result'.c]) :
         references'[result'.c] = ListRemove(references[result'.c], r) =>
           /\ exc' = ""
           /\ r \notin SeqToSet(references'[result'.c])
           /\ refobj[r].name \notin DOMAIN named_references'[result'.c]
           /\ \A k \in DOMAIN named_references[result'.c] :
                named_references[result'.c][k] # r =>
                  /\ k \in DOMAIN named_references'[result'.c]
                  /\ named_references'[result'.c][k] = named_references[result'.c][k]]_vars

\* ------------------------------------------------------------ extract claim
\* the polygons of a list that are on one of the layers, in their order
OnLayers(ps, layers) == SelectSeq(ps, LAMBDA p : p.layer \in layers)

\* C23 (as stated): extract returns a new Component whose polygons are
\* exactly the polygons of the source hierarchy (its own and, when
\* recursive, those of every reference level) that are on the layers, and
\* leaves the source and every other Component as they were, locked or not.
C23_ExtractHoldsEveryPolygonOnLayers ==
  [][result'.op = ExtractOp =>
       /\ exc' = ""
       /\ result'.ret \notin Components
       /\ polygons'[result'.ret] =
            OnLayers(IF result'.recursive THEN AllPolygons(Heap, result'.c)
                     ELSE polygons[result'.c], result'.layers)
       /\ \A x \in Components : Untouched(x)]_vars

\* C23 (amended): extract returns a new Component whose polygons are the
\* polygons on the layers among the polygons of positive area of the source
\* itself and, when recursive, all polygons of every reference level below
\* it (copy() does not carry over a polygon of zero area of the source
\* itself); a recursive extract has no references; the source and every
\* other Component are left as they were, locked or not.
C23_ExtractHoldsCopiedPolygonsOnLayers ==
  [][result'.op = ExtractOp =>
       /\ exc' = ""
       /\ result'.ret \notin Components
       /\ polygons'[result'.ret] =
            OnLayers(Positive(polygons[result'.c])
                       \o (IF result'.recursive
                           THEN RefPolygons(Heap, references[result'.c]) ELSE <<>>),
                     result'.layers)
       /\ result'.recursive => references'[result'.ret] = <<>>
       /\ \A x \in Components : Untouched(x)]_vars

\* C23 witness: layer 1 was extracted recursively from a locked Component
\* that holds a polygon on layer 2 and, below a reference, a polygon on
\* layer 1; the result holds the polygon from below and the source still
\* has its polygon, its reference and its lock
C23_LockedHierarchyExtracted ==
  /\ Extracted
  /\ exc = ""
  /\ result.recursive
  /\ result.layers = {1}
  /\ locked[result.c]
  /\ polygons[result.c] = <<Polygon(2, 1)>>
  /\ references[result.c] # <<>>
  /\ polygons[result.ret] = <<Polygon(1, 1)>>
  /\ references[result.ret] = <<>>

\* -------------------------------------------------- more normalizer claims
\* the copies of the Component x that a call made: the Components of the
\* next state, not of this one, that bear a name a copy of x is given
ClonesOf(x) == {y \in (n + 1)..n' : name'[y] \in CloneNames(Heap, x)}

\* C24: one top-level call of the normalizer processes each Component of the
\* hierarchy at most once, also one that several references point at or
\* that is reached along several paths, so it makes at most one copy of
\* each Component.
C24_AtMostOneClonePerCanvas ==
  [][result'.op = NormalizeOp =>
       \A x \in Components : Cardinality(ClonesOf(x)) <= 1]_vars

\* the Components a call made that are copies: those that bear a name a
\* copy of some Component is given
Clones == UNION {ClonesOf(x) : x \in Components}

\* C25: with keep_names every copy the normalizer makes, at every depth,
\* has the name of the Component it is a copy of; without it every copy has
\* that name with a suffix; and the table of updated Components is keyed by
\* names of the Components of the hierarchy given, so that the owner of a
\* reference finds the copy under the name of the target.
C25_ClonesKeepNames ==
  [][result'.op = NormalizeOp =>
       /\ \A x \in Components : \A y \in ClonesOf(x) :
            IF result'.keep_names THEN name'[y] = name[x] ELSE name'[y] # name[x]
       /\ DOMAIN result'.updated \subseteq {name[x] : x \in Components}]_vars

\* -------------------------------------------------------------- alias claim
\* C26: a reference added with no alias is given the alias prefix_k, the
\* prefix being the name of the target (the Components here are made by no
\* generator) and k the first value of the counter of the prefix in the
\* owner, incremented at least once, at which prefix_k is no key of the
\* alias namespace; the counter is left at k; and the alias is that of no
\* reference the owner lists, supplied by hand or inherited by copy().
C26_AutoAliasIsFresh ==
  [][(result'.op = "add_ref" /\ result'.auto /\ exc' = "") =>
       LET c == result'.c
           prefix == name[result'.target]
           before == Get(reference_names_counter[c], prefix, 0)
           k == reference_names_counter'[c][prefix]
           alias == refobj'[result'.ret].name
       IN /\ alias = Alias(prefix, k)
          /\ k > before
          /\ alias \notin DOMAIN named_references[c]
          /\ \A j \in (before + 1)..(k - 1) :
               Alias(prefix, j) \in DOMAIN named_references[c]
          /\ \A i \in 1..Len(references[c]) :
               refobj[references[c][i]].name # alias]_vars

\* ------------------------------------------------------------- rename claim
\* C27: a rename to another name removes the cache entry of the old name
\* when that entry is the Component renamed and, with cache=True, counts
\* the new name and registers the Component under the name it ends with
\* (suffixed by the counter when the name was counted before); after every
\* call each cache key is the name of the Component it maps to; and a rename
\* to the current name changes neither the cache nor the name counters.
C27_RenameKeepsCacheConsistent ==
  [][/\ result'.op = RenameOp =>
          LET c == result'.c
              nm == result'.nm
          IN IF name[c] = nm
             THEN /\ CACHE' = CACHE
                  /\ name_counters' = name_counters
                  /\ name' = name
             ELSE /\ (Get(CACHE, name[c], 0) = c /\ name'[c] # name[c]) =>
                       name[c] \notin DOMAIN CACHE'
                  /\ IF result'.cache
                     THEN /\ name_counters'[nm] = Get(name_counters, nm, 0) + 1
                          /\ name'[c] = CounterName(nm, name_counters'[nm])
                          /\ Get(CACHE', name'[c], 0) = c
                     ELSE /\ name'[c] = nm
                          /\ name_counters' = name_counters
                          /\ \A k \in DOMAIN CACHE' : CACHE'[k] # c
     /\ \A k \in DOMAIN CACHE' : name'[CACHE'[k]] = k]_vars

\* C27 witness: the one Component there is, registered under X by a first
\* rename, was renamed again, with cache=True, to X; it ends as X$1, is
\* registered under X$1 and the entry X is gone
C27_CachedRenamedToCountedName ==
  /\ result.op = RenameOp
  /\ result.cache
  /\ result.nm = "X"
  /\ n = 1
  /\ Renamed("X") = 2
  /\ name[1] = "X$1"
  /\ DOMAIN CACHE = {"X$1"}
  /\ CACHE["X$1"] = 1

\* ---------------------------------------------------------------- add claim
\* C28: add(reference) on a locked Component, with raise_error_on_mutation
\* set, raises MutabilityError and leaves the references, the alias
\* namespace and the alias counters of the Component, and the owner of the
\* reference (none, the reference being new), as they were.
C28_RefusedAddLeavesNoTrace ==
  (result.op = "add" /\ locked[result.c] /\ raise_error_on_mutation) =>
    /\ exc = "MutabilityError"
    /\ result.unchanged
    /\ refobj[Len(refobj)].owner = 0

\* C29: the normalizer changes no Component of the hierarchy it is given
\* (name, lock, polygons, ports, references and their targets are as they
\* were), and with keep_names, as in the export, no copy it makes, at any
\* depth, is put in the cache and no cache entry there was is changed.
C29_NormalizerWorksOnUncachedCopies ==
  [][result'.op = NormalizeOp =>
       /\ \A x \in Components : Untouched(x)
       /\ result'.keep_names =>
            /\ \A y \in Clones : \A k \in DOMAIN CACHE' : CACHE'[k] # y
            /\ \A k \in DOMAIN CACHE :
                 k \in DOMAIN CACHE' /\ CACHE'[k] = CACHE[k]]_vars

\* ---------------------------------------------------------- ownership claim
\* C30: references are single-owner: every reference a Component lists has
\* that Component as its owner, no reference is listed twice by a
\* Component, and none is listed by two Components.
C30_ReferencesAreSingleOwner ==
  \A c \in Components :
    /\ \A i \in 1..Len(references[c]) : refobj[references[c][i]].owner = c
    /\ \A i, j \in 1..Len(references[c]) :
         i # j => references[c][i] # references[c][j]
    /\ \A d \in Components \ {c} :
         SeqToSet(references[c]) \cap SeqToSet(references[d]) = {}
====
